---- MODULE Spec2Model ----
(***************************************************************************)
(* A model of the agent pipeline of websocietysimulator: the workflow and  *)
(* result parser of TOTSimulationAgentDILU, the episodic memory variants   *)
(* and the reasoning strategies.                                           *)
(*                                                                         *)
(* A Python str is a sequence of one-character strings, so that split,     *)
(* strip, lower, replace, "in" and float are computed character by         *)
(* character.                                                              *)
(***************************************************************************)
EXTENDS Integers, Sequences, FiniteSets, TLC

VARIABLES
    pc,               \* position of the workflow call
    events,           \* what the workflow call did so far, in order
    reviews_item,     \* workflow's reviews_item: the texts get_reviews(item_id) gave
    seeded,           \* how many of reviews_item the loop has fed to memory
    reviews_user,     \* workflow's reviews_user: the texts get_reviews(user_id) gave
    review_similar,   \* workflow's review_similar, the exemplar of the prompt
    result,           \* what self.reasoning(task_description) returned
    review_text,      \* workflow's review_text before the 512 cut
    decision,         \* the dict workflow returns
    outcome,          \* "running", "returned" or "raised" (an exception left workflow)
    caught,           \* TRUE once the except clause of workflow ran
    memory_type,      \* MemoryBase.memory_type: which variant the store is
    scenario_memory,  \* the Chroma collection: the Documents, in insertion order
    emb,              \* the embedding model: text -> position
    memRet,           \* the last addMemory / retriveMemory call and how it ended
    added,            \* the texts of the addMemory calls that returned normally
    llm_answers,      \* what the LLM answered during the last memory call, in order
    strategy,         \* which reasoning strategy is called
    rpc,              \* position of the strategy call: "start", "second" or "done"
    llm_reply,        \* what the LLM answered to the reasoning strategy's first call
    llm_reply2,       \* what the LLM answered to the strategy's second call
    llm_calls,        \* the LLM calls the reasoning strategy made, in order
    reasoning_results,\* ReasoningTOT's candidates, as passed to get_votes
    vote_results,     \* get_votes' vote_results, the tally per candidate
    rsnRet,           \* how the call of the reasoning strategy ended
    logger,           \* GeminiLLM.logger: "none", or "attached" (an LLMLogger)
    enabled,          \* LLMLogger.enabled
    call_counter,     \* LLMLogger.call_counter
    log_file,         \* the entries of the log file, in the order written
    write_errors,     \* how many writes to the log file failed and were swallowed
    llm_pc,           \* position of the GeminiLLM call: "idle", "finally" or "exit"
    llm_n,            \* the n of the GeminiLLM call
    llm_response,     \* GeminiLLM.__call__'s local response
    llm_error,        \* GeminiLLM.__call__'s local error
    llm_history,      \* how the GeminiLLM calls ended that reached their caller
    api_response,     \* GeminiLLM.__call__'s local api_response, the provider's answer
    feedback,         \* the feedback argument of the reasoning strategy's call
    first_call,       \* an earlier call of the strategy: its feedback, messages, result
    write_lock,       \* LLMLogger.write_lock: 0 when free, else the thread holding it
    log_pc,           \* per thread: its position in the logger method it runs
    log_op,           \* per thread: the logger method it runs
    local_id,         \* per thread: log_llm_call's local call_id (0 for None)
    counter_read,     \* per thread: the call_counter value that += 1 has read
    assigned,         \* the call_ids in the order they were assigned, with the thread
    log_chunks,       \* the log file as the chunks written to it, in file order
    log_calls,        \* how many logger methods were called so far
    class_lock,       \* LLMLogger._lock: 0 when free, else the thread holding it
    singleton,        \* LLMLogger._instance: 0 for None, else the number of the instance
    get_pc,           \* per thread: its position in get_instance
    get_args,         \* per thread: the enabled argument it passes to get_instance
    get_new,          \* per thread: the instance its cls(...) call made, before assignment
    get_ret,          \* per thread: what get_instance returned to it (0: not yet)
    constructed,      \* the LLMLogger instances constructed so far: their enabled flag
    disk,             \* the Chroma directories: persist_directory -> the Documents
    db_path,          \* per agent: the db_path of its MemoryBase (0: not constructed)
    uuids,            \* how many values uuid.uuid4() has given
    actor             \* the agent and kind of the last memory operation

wfVars ==
    <<pc, events, reviews_item, seeded, reviews_user, review_similar, result,
      review_text, decision, outcome, caught>>

memVars == <<memory_type, scenario_memory, emb, memRet, added, llm_answers>>

rsnVars ==
    <<strategy, rpc, llm_reply, llm_reply2, llm_calls, reasoning_results,
      vote_results, rsnRet>>

llmVars ==
    <<logger, enabled, call_counter, log_file, write_errors, llm_pc, llm_n,
      llm_response, llm_error, llm_history, api_response>>

fbVars == <<feedback, first_call>>

thrVars ==
    <<write_lock, log_pc, log_op, local_id, counter_read, assigned, log_chunks,
      log_calls, class_lock, singleton, get_pc, get_args, get_new, get_ret,
      constructed>>

agVars == <<disk, db_path, uuids, actor>>

vars == <<wfVars, memVars, rsnVars, llmVars, fbVars, thrVars, agVars>>

-----------------------------------------------------------------------------
(* Bounds of the model. *)

\* the lines of a reasoning result that are enumerated
MaxLines == 2

\* the records a memory store is filled with
MaxRecords == 2

\* the vote outputs the voting call of get_votes is answered with
MaxVotes == 3

\* the GeminiLLM calls that are made
MaxCalls == 2

\* the candidates of a provider response
MaxCandidates == 2

-----------------------------------------------------------------------------
(* String literals of the source. *)

StarsKey == <<"s","t","a","r","s",":">>

ReviewKey == <<"r","e","v","i","e","w",":">>

NoReviewGenerated ==
    <<"N","o"," ","r","e","v","i","e","w"," ","g","e","n","e","r","a","t",
      "e","d",".">>

UpperLetters ==
    <<"A","B","C","D","E","F","G","H","I","J","K","L","M","N","O","P","Q",
      "R","S","T","U","V","W","X","Y","Z">>

LowerLetters ==
    <<"a","b","c","d","e","f","g","h","i","j","k","l","m","n","o","p","q",
      "r","s","t","u","v","w","x","y","z">>

Whitespace == {" ", "\t", "\n", "\r"}

Digits == <<"0","1","2","3","4","5","6","7","8","9">>

DigitSet == {Digits[i] : i \in 1..10}

\* len(review_text) > 512, review_text[:512]
ReviewLimit == 512

-----------------------------------------------------------------------------
(* Python's str operations, on sequences of characters. *)

\* str.lower() of one character
LowerCh(c) ==
    IF \E i \in 1..26 : UpperLetters[i] = c
    THEN LowerLetters[CHOOSE i \in 1..26 : UpperLetters[i] = c]
    ELSE c

\* s.lower()
Lower(s) == [i \in 1..Len(s) |-> LowerCh(s[i])]

\* pat in s
IsIn(pat, s) ==
    \E i \in 1..(Len(s) - Len(pat) + 1) :
        \A j \in 1..Len(pat) : s[i + j - 1] = pat[j]

\* the k-th smallest element of a finite set of integers
Nth(S, k) == CHOOSE x \in S : Cardinality({y \in S : y < x}) = k - 1

\* s.split(c), c one character: the fields between the occurrences of c
Split(s, c) ==
    LET P == {i \in 1..Len(s) : s[i] = c}
        n == Cardinality(P)
        first(k) == IF k = 1 THEN 1 ELSE Nth(P, k - 1) + 1
        last(k) == IF k = n + 1 THEN Len(s) ELSE Nth(P, k) - 1
    IN  [k \in 1..(n + 1) |-> SubSeq(s, first(k), last(k))]

\* s.strip()
Strip(s) ==
    LET N == {i \in 1..Len(s) : s[i] \notin Whitespace}
    IN  IF N = {} THEN <<>>
        ELSE LET a == CHOOSE i \in N : \A j \in 1..(i - 1) : s[j] \in Whitespace
                 b == CHOOSE i \in N : \A j \in (i + 1)..Len(s) : s[j] \in Whitespace
             IN  SubSeq(s, a, b)

\* s[:n]
Prefix(s, n) == SubSeq(s, 1, IF Len(s) < n THEN Len(s) ELSE n)

\* sep.join(ss) for a one-character sep
RECURSIVE Join(_, _)
Join(ss, c) ==
    IF Len(ss) = 0 THEN <<>>
    ELSE IF Len(ss) = 1 THEN ss[1]
    ELSE ss[1] \o <<c>> \o Join(Tail(ss), c)

-----------------------------------------------------------------------------
(* Python floats that float() reads from decimal text: m / 10^e. *)

Dec(m, e) == [m |-> m, e |-> e]

RECURSIVE Pow10(_)
Pow10(e) == IF e = 0 THEN 1 ELSE 10 * Pow10(e - 1)

\* a == b on floats
DecEq(a, b) == a.m * Pow10(b.e) = b.m * Pow10(a.e)

DigitVal(c) == (CHOOSE i \in 1..10 : Digits[i] = c) - 1

RECURSIVE DigitsVal(_)
DigitsVal(ds) ==
    IF Len(ds) = 0 THEN 0
    ELSE 10 * DigitsVal(SubSeq(ds, 1, Len(ds) - 1)) + DigitVal(ds[Len(ds)])

IsDigit(c) == c \in DigitSet

\* float(t): [ok |-> FALSE] stands for ValueError.  The grammar is
\* [sign] digits [ "." digits ] with at least one digit, surrounded by
\* whitespace; exponents, "inf" and "nan" need characters the enumerated
\* results never put next to digits.
ParseFloat(t) ==
    LET u == Strip(t)
        signed == Len(u) > 0 /\ u[1] \in {"-", "+"}
        body == IF signed THEN Tail(u) ELSE u
        dots == {i \in 1..Len(body) : body[i] = "."}
        wellFormed ==
            /\ \A i \in 1..Len(body) : body[i] = "." \/ IsDigit(body[i])
            /\ Cardinality(dots) <= 1
            /\ \E i \in 1..Len(body) : IsDigit(body[i])
        mag == DigitsVal(SelectSeq(body, IsDigit))
        e == IF dots = {} THEN 0 ELSE Len(body) - (CHOOSE i \in dots : TRUE)
    IN  IF wellFormed
        THEN [ok |-> TRUE,
              val |-> Dec(IF signed /\ u[1] = "-" THEN 0 - mag ELSE mag, e)]
        ELSE [ok |-> FALSE, val |-> Dec(0, 0)]

-----------------------------------------------------------------------------
(* The parse step of TOTSimulationAgentDILU.workflow. *)

\* a value of Python: None, a str, or something that is neither
NoneVal == [kind |-> "none", text |-> <<>>]

Str(t) == [kind |-> "str", text |-> t]

OtherVal == [kind |-> "other", text |-> <<>>]

HasStarsKey(line) == IsIn(StarsKey, Lower(line))

HasReviewKey(line) == IsIn(ReviewKey, Lower(line))

\* if result and isinstance(result, str)
Parseable(r) == r.kind = "str" /\ r.text # <<>>

\* stars_lines / review_lines: the lines of result that hold the key
StarsLines(r) ==
    IF Parseable(r) THEN SelectSeq(Split(r.text, "\n"), HasStarsKey) ELSE <<>>

ReviewLines(r) ==
    IF Parseable(r) THEN SelectSeq(Split(r.text, "\n"), HasReviewKey) ELSE <<>>

DefaultStars == Dec(3, 0)

\* parts = line.split(':'); parts[1]
SecondField(line) == Split(line, ":")[2]

\* stars_line -> stars
StarsOf(lines) ==
    IF lines = <<>> THEN DefaultStars
    ELSE LET parts == Split(lines[1], ":")
         IN  IF Len(parts) > 1
             THEN LET f == ParseFloat(Strip(SecondField(lines[1])))
                  IN  IF f.ok THEN f.val ELSE DefaultStars
             ELSE DefaultStars

\* review_line -> review_text
ReviewOf(lines) ==
    IF lines = <<>> THEN NoReviewGenerated
    ELSE LET parts == Split(lines[1], ":")
         IN  IF Len(parts) > 1 THEN Strip(SecondField(lines[1]))
             ELSE NoReviewGenerated

\* the parse step without the cut
TruncateNever(t) == t

\* if len(review_text) > 512: review_text = review_text[:512]
Truncate(t) == IF Len(t) > ReviewLimit THEN Prefix(t, ReviewLimit) ELSE t

\* the dict of the except clause
Sentinel == [stars |-> Dec(0, 0), review |-> <<>>]

\* an except clause that lets the exception go on to the caller
OnExceptionReraise == [outcome |-> "raised", decision |-> Sentinel]

\* what the except clause of workflow does with an exception
OnException == [outcome |-> "returned", decision |-> Sentinel]

-----------------------------------------------------------------------------
(* The episodic memory store: MemoryDILU, MemoryGenerative, MemoryTP and   *)
(* MemoryVoyager over one Chroma collection.                               *)

PlanBanner ==
    <<"P","l","a","n"," ","f","r","o","m"," ","s","u","c","c","e","s","s",
      "f","u","l"," ","a","t","t","e","m","p","t"," ","i","n"," ","s","i",
      "m","i","l","a","r"," ","t","a","s","k",":","\n">>

MemoryTypes == {"dilu", "generative", "tp", "voyager"}

\* Document(page_content=..., metadata={"task_trajectory": ...})
Document(content, trajectory) ==
    [page_content |-> content, task_trajectory |-> trajectory]

\* an LLM call returns a text or raises
Reply(t) == [ok |-> TRUE, text |-> t]

Raise == [ok |-> FALSE, text |-> <<>>]

\* how a memory call ended: raised, or returned value (None for addMemory)
MemReturn(op, arg, value, calls) ==
    [op |-> op, arg |-> arg, raised |-> FALSE, value |-> value, calls |-> calls]

MemRaise(op, arg, calls) ==
    [op |-> op, arg |-> arg, raised |-> TRUE, value |-> <<>>, calls |-> calls]

NoMemCall == MemReturn("none", <<>>, <<>>, 0)

\* the distance of two texts under the embedding e
Dist(e, a, b) == IF e[a] > e[b] THEN e[a] - e[b] ELSE e[b] - e[a]

\* a search that returns the first k documents, whatever their distance
TopKInserted(store, e, q, k) ==
    [r \in 1..(IF Len(store) < k THEN Len(store) ELSE k) |-> r]

\* similarity_search_with_score(q, k): the indices of the k documents whose
\* page_content is nearest to q, nearest first (equal distances in insertion
\* order)
TopK(store, e, q, k) ==
    LET n == Len(store)
        closer(i, j) ==
            \/ Dist(e, q, store[i].page_content) < Dist(e, q, store[j].page_content)
            \/ /\ Dist(e, q, store[i].page_content) = Dist(e, q, store[j].page_content)
               /\ i < j
        rank(i) == Cardinality({j \in 1..n : closer(j, i)}) + 1
    IN  [r \in 1..(IF n < k THEN n ELSE k) |-> CHOOSE i \in 1..n : rank(i) = r]

\* [d.metadata['task_trajectory'] for d in hits if d.metadata.get('task_trajectory')]
Trajectories(store, hits) ==
    LET kept == SelectSeq(hits, LAMBDA i : store[i].task_trajectory # <<>>)
    IN  [j \in 1..Len(kept) |-> store[kept[j]].task_trajectory]

\* MemoryDILU.retriveMemory returning task_name, the query, with the hit
RetrieveDILUEcho(store, e, q) ==
    IF Len(store) = 0 THEN MemReturn("retrieve", q, <<>>, 0)
    ELSE MemReturn("retrieve", q,
                   q \o Join(Trajectories(store, TopK(store, e, q, 1)), "\n"), 0)

\* MemoryDILU.retriveMemory
RetrieveDILU(store, e, q) ==
    IF Len(store) = 0 THEN MemReturn("retrieve", q, <<>>, 0)
    ELSE MemReturn("retrieve", q, Join(Trajectories(store, TopK(store, e, q, 1)), "\n"), 0)

\* int(re.search(r'\d+', response).group()) if re.search(r'\d+', response) else 0
FirstInt(t) ==
    LET D == {i \in 1..Len(t) : IsDigit(t[i])}
    IN  IF D = {} THEN 0
        ELSE LET a == CHOOSE i \in D : \A j \in D : i <= j
                 b == CHOOSE i \in a..Len(t) :
                          /\ \A j \in a..i : IsDigit(t[j])
                          /\ i = Len(t) \/ ~IsDigit(t[i + 1])
             IN  DigitsVal(SubSeq(t, a, b))

\* the scoring loop of MemoryGenerative.retriveMemory from hit j on: replies
\* are the LLM's answers, one per call
RECURSIVE ScoreHits(_, _, _, _, _)
ScoreHits(store, hits, j, replies, scores) ==
    IF j > Len(hits) THEN [raised |-> FALSE, scores |-> scores]
    ELSE IF store[hits[j]].task_trajectory = <<>>
         THEN ScoreHits(store, hits, j + 1, replies, scores)
    ELSE IF ~replies[Len(scores) + 1].ok
         THEN [raised |-> TRUE, scores |-> scores]
    ELSE ScoreHits(store, hits, j + 1, replies,
                   Append(scores, FirstInt(replies[Len(scores) + 1].text)))

\* importance_scores.index(max(importance_scores)), from 1
FirstMax(scores) ==
    CHOOSE i \in 1..Len(scores) :
        /\ \A j \in 1..Len(scores) : scores[j] <= scores[i]
        /\ \A j \in 1..(i - 1) : scores[j] < scores[i]

\* MemoryGenerative.retriveMemory without the return of line 188: max() of
\* no scores raises
RetrieveGenerativeUnguarded(store, e, q, replies) ==
    IF Len(store) = 0 THEN MemReturn("retrieve", q, <<>>, 0)
    ELSE LET hits == TopK(store, e, q, 3)
             run == ScoreHits(store, hits, 1, replies, <<>>)
         IN  IF run.raised THEN MemRaise("retrieve", q, Len(run.scores) + 1)
             ELSE IF Len(run.scores) = 0
                  THEN MemRaise("retrieve", q, 0)
             ELSE MemReturn("retrieve", q,
                            store[hits[FirstMax(run.scores)]].task_trajectory,
                            Len(run.scores))

\* MemoryGenerative.retriveMemory
RetrieveGenerative(store, e, q, replies) ==
    IF Len(store) = 0 THEN MemReturn("retrieve", q, <<>>, 0)
    ELSE LET hits == TopK(store, e, q, 3)
             run == ScoreHits(store, hits, 1, replies, <<>>)
         IN  IF run.raised THEN MemRaise("retrieve", q, Len(run.scores) + 1)
             ELSE IF Len(run.scores) = 0
                  THEN MemReturn("retrieve", q, <<>>, 0)
             ELSE MemReturn("retrieve", q,
                            store[hits[FirstMax(run.scores)]].task_trajectory,
                            Len(run.scores))

\* MemoryTP.retriveMemory without the count() == 0 return: the loop over no
\* hits leaves no plan and the banner is returned
RetrieveTPUnguarded(store, e, q, replies) ==
    IF Len(store) = 0 THEN MemReturn("retrieve", q, PlanBanner, 0)
    ELSE LET hits == TopK(store, e, q, 1)
         IN  IF store[hits[1]].task_trajectory = <<>>
             THEN MemReturn("retrieve", q, PlanBanner, 0)
             ELSE IF ~replies[1].ok THEN MemRaise("retrieve", q, 1)
             ELSE MemReturn("retrieve", q, PlanBanner \o replies[1].text, 1)

\* MemoryTP.retriveMemory
RetrieveTP(store, e, q, replies) ==
    IF Len(store) = 0 THEN MemReturn("retrieve", q, <<>>, 0)
    ELSE LET hits == TopK(store, e, q, 1)
         IN  IF store[hits[1]].task_trajectory = <<>>
             THEN MemReturn("retrieve", q, PlanBanner, 0)
             ELSE IF ~replies[1].ok THEN MemRaise("retrieve", q, 1)
             ELSE MemReturn("retrieve", q, PlanBanner \o replies[1].text, 1)

\* MemoryVoyager.retriveMemory
RetrieveVoyager(store, e, q) ==
    IF Len(store) = 0 THEN MemReturn("retrieve", q, <<>>, 0)
    ELSE LET hits == TopK(store, e, q, 1)
         IN  MemReturn("retrieve", q,
                       Join([j \in 1..Len(hits) |-> store[hits[j]].task_trajectory], "\n"),
                       0)

\* retriveMemory of the variant mt
RetrieveOf(mt, store, e, q, replies) ==
    CASE mt = "dilu" -> RetrieveDILU(store, e, q)
      [] mt = "generative" -> RetrieveGenerative(store, e, q, replies)
      [] mt = "tp" -> RetrieveTP(store, e, q, replies)
      [] mt = "voyager" -> RetrieveVoyager(store, e, q)

\* a Document whose page_content is the text itself in every variant
NewDocumentPlain(mt, t, replies) == Document(t, t)

\* the Document addMemory builds: MemoryVoyager embeds the LLM's summary, the
\* other variants the text itself
NewDocument(mt, t, replies) ==
    IF mt = "voyager" THEN Document(replies[1].text, t) ELSE Document(t, t)

\* add_documents that keeps one Document per content
AddDocumentsOnce(store, doc) ==
    IF \E i \in 1..Len(store) : store[i] = doc THEN store ELSE Append(store, doc)

\* scenario_memory.add_documents([doc])
AddDocuments(store, doc) == Append(store, doc)

\* whether addMemory raises: MemoryVoyager's summary call may
AddRaises(mt, replies) == mt = "voyager" /\ ~replies[1].ok

\* the LLM calls one addMemory makes
AddCalls(mt) == IF mt = "voyager" THEN 1 ELSE 0

\* the most LLM calls one retriveMemory makes: one per hit, of 3 hits
\* (MemoryGenerative) or of 1 hit (MemoryTP)
RetrieveCalls(mt, store) ==
    LET k == IF mt = "generative" THEN 3 ELSE IF mt = "tp" THEN 1 ELSE 0
    IN  IF Len(store) < k THEN Len(store) ELSE k

\* addMemory of the variant mt: the store afterwards and how the call ended
AddOf(mt, store, t, replies) ==
    IF AddRaises(mt, replies)
    THEN [store |-> store, ret |-> MemRaise("add", t, AddCalls(mt))]
    ELSE [store |-> AddDocuments(store, NewDocument(mt, t, replies)),
          ret |-> MemReturn("add", t, <<>>, AddCalls(mt))]

\* s.replace(pat, '')
RECURSIVE RemoveAll(_, _)
RemoveAll(s, pat) ==
    IF Len(s) < Len(pat) THEN s
    ELSE IF SubSeq(s, 1, Len(pat)) = pat
         THEN RemoveAll(SubSeq(s, Len(pat) + 1, Len(s)), pat)
    ELSE <<s[1]>> \o RemoveAll(Tail(s), pat)

\* MemoryBase.__call__(s): addMemory when s holds 'review:', else retriveMemory
MemoryCall(mt, store, e, s, replies) ==
    IF IsIn(ReviewKey, s)
    THEN AddOf(mt, store, RemoveAll(s, ReviewKey), replies)
    ELSE [store |-> store, ret |-> RetrieveOf(mt, store, e, s, replies)]

\* what MemoryBase.__call__ returns: None after addMemory
CallValue(ret) == IF ret.op = "add" THEN NoneVal ELSE Str(ret.value)

-----------------------------------------------------------------------------
(* ReasoningCOTSC. *)

FallbackText ==
    <<"s","t","a","r","s",":"," ","3",".","0","\n","r","e","v","i","e","w",
      ":"," ","U","n","a","b","l","e"," ","t","o"," ","g","e","n","e","r",
      "a","t","e"," ","r","e","v","i","e","w",".">>

\* n=5 of ReasoningCOTSC's call
SCSamples == 5

\* what self.llm(..., n=5) gives: a list of completions, None, or an exception
ListReply(xs) == [kind |-> "list", items |-> xs]

NoneReply == [kind |-> "none", items |-> <<>>]

RaiseReply == [kind |-> "raise", items |-> <<>>]

\* a str the LLM gives where a list was asked for
StrReply(t) == [kind |-> "str", items |-> <<t>>]

\* a piece of a prompt: the text of a template (kind names it), or a text
\* that was formatted into the prompt
Piece(kind, index, text) == [kind |-> kind, index |-> index, text |-> text]

\* a prompt that ends with the feedback argument
TaskPromptFeedback(template) ==
    <<Piece(template, 0, <<>>), Piece("examples", 0, <<>>),
      Piece("task_description", 0, <<>>), Piece("feedback", 0, feedback)>>

\* the prompt every strategy builds from its template, the examples and the
\* task description
TaskPrompt(template) ==
    <<Piece(template, 0, <<>>), Piece("examples", 0, <<>>),
      Piece("task_description", 0, <<>>)>>

\* self.llm(messages=messages, temperature=..., n=...): content is the
\* content of the message sent
LLMCall(name, temperature, n, content) ==
    [strategy |-> name, temperature |-> temperature, n |-> n,
     content |-> content]

\* how a strategy call ended
RsnReturn(v) == [raised |-> FALSE, value |-> v]

RsnRaise == [raised |-> TRUE, value |-> <<>>]

\* the keys of Counter(xs): the distinct elements in order of first occurrence
CounterKeys(xs) ==
    LET F == {i \in 1..Len(xs) : \A j \in 1..(i - 1) : xs[j] # xs[i]}
    IN  [k \in 1..Cardinality(F) |-> xs[Nth(F, k)]]

\* Counter(xs)[x]
CountOf(xs, x) == Cardinality({i \in 1..Len(xs) : xs[i] = x})

\* most_common(1) taking the last of the most frequent keys
MostCommonLast(xs) ==
    LET keys == CounterKeys(xs)
    IN  IF Len(keys) = 0 THEN <<>>
        ELSE <<keys[CHOOSE k \in 1..Len(keys) :
                   /\ \A j \in 1..Len(keys) : CountOf(xs, keys[j]) <= CountOf(xs, keys[k])
                   /\ \A j \in (k + 1)..Len(keys) :
                          CountOf(xs, keys[j]) < CountOf(xs, keys[k])]>>

\* Counter(xs).most_common(1): heapq.nlargest(1, items) is max(items), which
\* keeps the first of the keys with the highest count
MostCommon(xs) ==
    LET keys == CounterKeys(xs)
    IN  IF Len(keys) = 0 THEN <<>>
        ELSE <<keys[CHOOSE k \in 1..Len(keys) :
                   /\ \A j \in 1..Len(keys) : CountOf(xs, keys[j]) <= CountOf(xs, keys[k])
                   /\ \A j \in 1..(k - 1) :
                          CountOf(xs, keys[j]) < CountOf(xs, keys[k])]>>

\* ReasoningCOTSC.__call__ after the LLM answered reply
COTSCResult(reply) ==
    IF reply.kind = "raise" THEN RsnRaise
    ELSE LET most_common == MostCommon(reply.items)
         IN  IF Len(most_common) > 0 THEN RsnReturn(most_common[1])
             ELSE IF Len(reply.items) > 0 THEN RsnReturn(reply.items[1])
             ELSE RsnReturn(FallbackText)

-----------------------------------------------------------------------------
(* ReasoningTOT and its get_votes. *)

\* n=3 of ReasoningTOT's candidate call
TOTSamples == 3

\* n=5 of the voting call
VoteSamples == 5

MarkerThink == <<"t","h","i","n","k">>

BestAnswerIs == <<"b","e","s","t"," ","a","n","s","w","e","r"," ","i","s"," ">>

\* lines 147-152: what ReasoningTOT makes of the answer to the candidate call
Normalise(reply) ==
    IF reply.kind = "none" THEN <<FallbackText>>
    ELSE IF reply.kind = "list" /\ Len(reply.items) = 0 THEN <<FallbackText>>
    ELSE IF reply.kind = "str" /\ reply.items[1] = <<>> THEN <<FallbackText>>
    ELSE reply.items

\* a short-circuit test that looks for 'think' as it is written
ShortCircuitsExact(cands) ==
    cands[1] # <<>> /\ IsIn(MarkerThink, cands[1])

\* line 184: reasoning_results[0] and 'think' in reasoning_results[0].lower()
ShortCircuits(cands) ==
    cands[1] # <<>> /\ IsIn(MarkerThink, Lower(cands[1]))

\* the content of the message of the voting call: messages is built from
\* prompt before the loop of lines 195-196 runs
VoteMessage(cands) == TaskPrompt("vote")

\* the local prompt after the loop: prompt += f'Answer {i}:\n{y}\n'
VotePrompt(cands) ==
    TaskPrompt("vote") \o [i \in 1..Len(cands) |-> Piece("answer", i, cands[i])]

\* lines 204-205: vote_outputs as a list
VoteOutputs(reply) ==
    IF reply.kind = "list" THEN reply.items
    ELSE IF reply.kind = "str" /\ reply.items[1] # <<>> THEN reply.items
    ELSE <<>>

\* re.match(r".*best answer is .*(\d+).*", v, re.DOTALL).groups()[0], or <<>>
\* when there is no match: both .* are greedy, so the group is the last
\* digit of v, provided a digit follows an occurrence of the phrase
VoteMatch(v) ==
    LET n == Len(BestAnswerIs)
        P == {p \in 1..(Len(v) - n + 1) : SubSeq(v, p, p + n - 1) = BestAnswerIs}
        D == {i \in 1..Len(v) : IsDigit(v[i])}
    IN  IF \E p \in P, i \in D : i >= p + n
        THEN <<v[CHOOSE i \in D : \A j \in D : j <= i]>>
        ELSE <<>>

\* whether the vote output v counts for candidate i (from 1) of n: lines
\* 207-214
VotesFor(v, i, n) ==
    /\ v # <<>>
    /\ VoteMatch(v) # <<>>
    /\ LET vote == DigitsVal(VoteMatch(v)) - 1
       IN  vote >= 0 /\ vote < n /\ vote + 1 = i

\* vote_results after the loop of lines 206-216
VoteResults(cands, votes) ==
    [i \in 1..Len(cands) |->
        Cardinality({j \in 1..Len(votes) : VotesFor(votes[j], i, Len(cands))})]

\* a selection that takes the last of the candidates with the most votes
SelectIdLast(tally) ==
    CHOOSE i \in 1..Len(tally) :
        /\ \A j \in 1..Len(tally) : tally[j] <= tally[i]
        /\ \A j \in (i + 1)..Len(tally) : tally[j] < tally[i]

\* sorted(ids, key=lambda x: vote_results[x], reverse=True)[0], from 1: the
\* sort is stable, so equal tallies keep the order of ids
SelectId(tally) ==
    CHOOSE i \in 1..Len(tally) :
        /\ \A j \in 1..Len(tally) : tally[j] <= tally[i]
        /\ \A j \in 1..(i - 1) : tally[j] < tally[i]

\* get_votes that answers a failed voting call with the first candidate
GetVotesFallback(cands, reply) ==
    IF reply.kind = "raise" THEN RsnReturn(cands[1])
    ELSE RsnReturn(cands[SelectId(VoteResults(cands, VoteOutputs(reply)))])

\* get_votes past the short-circuit, once the voting call answered reply
GetVotes(cands, reply) ==
    IF reply.kind = "raise" THEN RsnRaise
    ELSE RsnReturn(cands[SelectId(VoteResults(cands, VoteOutputs(reply)))])

-----------------------------------------------------------------------------
(* ReasoningSelfRefine and ReasoningStepBack. *)

\* a refine prompt that leaves the first answer out
RefinePromptBlank(reasoning_result) == <<Piece("refine", 0, <<>>)>>

\* the prompt of ReasoningSelfRefine.refine(reasoning_result)
RefinePrompt(reasoning_result) ==
    <<Piece("refine", 0, <<>>), Piece("reasoning_result", 0, reasoning_result)>>

\* the prompt of ReasoningStepBack.stepback(task_description)
PrinciplePrompt ==
    <<Piece("stepback", 0, <<>>), Piece("task_description", 0, <<>>)>>

\* the prompt of ReasoningStepBack.__call__: {examples}{self.principle}
StepBackPrompt(principle) ==
    <<Piece("solve", 0, <<>>), Piece("examples", 0, <<>>),
      Piece("principle", 0, principle), Piece("task_description", 0, <<>>)>>

-----------------------------------------------------------------------------
(* GeminiLLM.__call__ and the LLMLogger it reports to. *)

\* error = None
NoError == "null"

\* a candidate of the provider's response: whether it has content, its
\* finish_reason, and the texts of content.parts
Candidate(content, finish, parts) ==
    [content |-> content, finish |-> finish, parts |-> parts]

\* what client.models.generate_content gives: it raises, or a response with
\* a prompt_feedback.block_reason or not, and its candidates
ApiRaise == [kind |-> "raise", blocked |-> FALSE, candidates |-> <<>>]

ApiResponse(blocked, candidates) ==
    [kind |-> "response", blocked |-> blocked, candidates |-> candidates]

\* how the try block of __call__ ends: response and error as the finally
\* clause sees them
Failed(message) == [raised |-> TRUE, response |-> NoneReply, error |-> message]

Succeeded(value) == [raised |-> FALSE, response |-> value, error |-> NoError]

\* lines 143-177: the text of candidates[0], for n == 1
FirstCandidate(c) ==
    IF ~c.content THEN Failed("Candidate has no content attribute")
    ELSE IF c.finish \in {"SAFETY", "RECITATION"} THEN Failed("Content was blocked")
    ELSE IF Len(c.parts) > 0 THEN Succeeded(StrReply(c.parts[1]))
    ELSE IF c.finish = "MAX_TOKENS" THEN Failed("Response hit MAX_TOKENS limit")
    ELSE Failed("Candidate has no extractable text")

\* line 179: [c.content.parts[0].text for c in candidates[:n]
\*            if c.content and c.content.parts]
CandidateTextsOf(candidates, k) ==
    LET firstk == SubSeq(candidates, 1, IF Len(candidates) < k THEN Len(candidates) ELSE k)
        kept == SelectSeq(firstk, LAMBDA c : c.content /\ Len(c.parts) > 0)
    IN  [i \in 1..Len(kept) |-> kept[i].parts[1]]

\* the try block of GeminiLLM.__call__, lines 109-182
Generate(api, k) ==
    IF api.kind = "raise" THEN Failed("generate_content failed")
    ELSE IF api.blocked THEN Failed("Prompt blocked")
    ELSE IF Len(api.candidates) = 0 THEN Failed("No candidates in API response")
    ELSE IF k = 1 THEN FirstCandidate(api.candidates[1])
    ELSE Succeeded(ListReply(CandidateTextsOf(api.candidates, k)))

\* the header record LLMLogger.__init__ writes
Header == [log_type |-> "header", call_id |-> 0, n |-> 0,
           response |-> NoneReply, error |-> NoError]

\* the entry of LLMLogger.log_llm_call
LLMCallEntry(id, k, resp, err) ==
    [log_type |-> "llm_call", call_id |-> id, n |-> k,
     response |-> resp, error |-> err]

\* the logger's state after the finally clause of __call__, for a logger
\* that is told of successful calls only
LogSuccessOnly(lg, en, counter, file, errors, k, resp, err, write_ok) ==
    IF lg = "none" \/ ~en \/ err # NoError
    THEN [counter |-> counter, file |-> file, errors |-> errors]
    ELSE [counter |-> counter + 1,
          file |-> IF write_ok
                   THEN Append(file, LLMCallEntry(counter + 1, k, resp, err))
                   ELSE file,
          errors |-> IF write_ok THEN errors ELSE errors + 1]

\* the logger's state after the finally clause of __call__: if self.logger,
\* log_llm_call, which returns at once when not enabled, else takes the next
\* call_id and writes the entry; a failed write is swallowed
LogLLMCall(lg, en, counter, file, errors, k, resp, err, write_ok) ==
    IF lg = "none" \/ ~en
    THEN [counter |-> counter, file |-> file, errors |-> errors]
    ELSE [counter |-> counter + 1,
          file |-> IF write_ok
                   THEN Append(file, LLMCallEntry(counter + 1, k, resp, err))
                   ELSE file,
          errors |-> IF write_ok THEN errors ELSE errors + 1]

-----------------------------------------------------------------------------
(* The inputs the model draws from. *)

Run(n) == [i \in 1..n |-> "x"]

ResultLines ==
    { <<>>,
      <<"x">>,
      StarsKey \o <<" ","4">>,
      <<"S","t","a","r","s",":"," ","5",".","0">>,
      StarsKey \o <<" ","4",".","5">>,
      StarsKey \o <<" ","4",":","5">>,
      StarsKey \o <<" ","x">>,
      StarsKey,
      <<"x",":">> \o StarsKey \o <<" ","4">>,
      StarsKey \o <<" ","0">>,
      StarsKey \o <<" ","-","4">>,
      ReviewKey \o <<" ","o","k">>,
      <<"R","e","v","i","e","w",":"," ","x",":","y"," ">>,
      ReviewKey,
      ReviewKey \o <<" ">> \o Run(ReviewLimit),
      ReviewKey \o <<" ">> \o Run(ReviewLimit + 1),
      StarsKey \o <<" ","4"," ">> \o ReviewKey \o <<" ","o","k">> }

RECURSIVE LineSeqs(_)
LineSeqs(n) ==
    IF n = 0 THEN {<<>>}
    ELSE LET shorter == LineSeqs(n - 1)
         IN  shorter \cup {Append(ls, l) : ls \in {s \in shorter : Len(s) = n - 1},
                                         l \in ResultLines}

ResultTexts == {Join(ls, "\n") : ls \in LineSeqs(MaxLines)}

ReasoningResults == {NoneVal, OtherVal} \cup {Str(t) : t \in ResultTexts}


\* the results self.reasoning gives in the whole-workflow model: None, a
\* non-string, and every text of at most one line
WfResults == {NoneVal, OtherVal} \cup {Str(t) : t \in ResultLines}

\* the texts of the reviews get_reviews(item_id=...) gives
ItemReviewTexts == {<<"a">>, <<"b">>}

\* the text of the first review get_reviews(user_id=...) gives
UserReviewTexts == {<<"a">>, ReviewKey \o <<"b">>}

RECURSIVE SeqsUpTo(_, _)
SeqsUpTo(S, n) ==
    IF n = 0 THEN {<<>>}
    ELSE LET shorter == SeqsUpTo(S, n - 1)
         IN  shorter \cup {Append(xs, x) : xs \in {s \in shorter : Len(s) = n - 1},
                                          x \in S}

\* a seed text without the 'review:' tag
SeedTextPlain(t) == t

\* f'review: {review_text}'
SeedText(t) == ReviewKey \o <<" ">> \o t

\* the texts the workflow's store embeds
WfEmbedded ==
    {RemoveAll(SeedText(t), ReviewKey) : t \in ItemReviewTexts}
        \cup {RemoveAll(t, ReviewKey) : t \in UserReviewTexts}

\* the texts passed to addMemory and retriveMemory in the memory model
MemTexts == {<<>>, <<"a">>, <<"b">>}

\* the texts the LLM answers a memory variant with
LLMTexts == {<<"7">>, <<"n","o">>}

LLMReplies == {Reply(t) : t \in LLMTexts} \cup {Raise}

EmbValues == {0, 1}

\* the texts a store of variant mt embeds: the queries and the page_content
\* of its documents, which for MemoryVoyager is an LLM summary
Embedded(mt) == MemTexts \cup (IF mt = "voyager" THEN LLMTexts ELSE {})

Embeddings(mt) == [Embedded(mt) -> EmbValues]

\* the completions the LLM answers ReasoningCOTSC with
Completions == {<<"A">>, <<"B">>, <<"C">>}

SCReplies ==
    {ListReply(xs) : xs \in SeqsUpTo(Completions, SCSamples)}
        \cup {NoneReply, RaiseReply}

\* what the LLM answers a call with n=1: a text, or the call raises
SingleReplies == {StrReply(t) : t \in Completions} \cup {RaiseReply}

\* the candidates the LLM answers ReasoningTOT with
CandidateTexts == {<<"A">>, <<"B">>, <<"I"," ","T","h","i","n","k"," ","A">>}

TOTReplies ==
    {ListReply(xs) : xs \in SeqsUpTo(CandidateTexts, TOTSamples)}
        \cup {NoneReply, RaiseReply, StrReply(<<"A">>)}

\* the vote outputs the LLM answers get_votes with
VoteTexts ==
    { <<>>,
      <<"T","h","e"," ","b","e","s","t"," ","a","n","s","w","e","r"," ","i","s"," ","1">>,
      <<"b","e","s","t"," ","a","n","s","w","e","r"," ","i","s"," ","2">>,
      <<"b","e","s","t"," ","a","n","s","w","e","r"," ","i","s"," ","3","\n">>,
      <<"b","e","s","t"," ","a","n","s","w","e","r"," ","i","s"," ","2",","," ","n","o","t"," ","1">>,
      <<"b","e","s","t"," ","a","n","s","w","e","r"," ","i","s"," ","4">>,
      <<"B","e","s","t"," ","a","n","s","w","e","r"," ","i","s"," ","1">> }

\* the n GeminiLLM is called with: 1, and ReasoningTOT's 3
CallNs == {1, TOTSamples}

\* the candidates the provider answers with: with a text, without parts,
\* without content, blocked for safety, and cut at the token limit
ApiCandidates ==
    { Candidate(TRUE, "STOP", << <<"A">> >>),
      Candidate(TRUE, "STOP", <<>>),
      Candidate(FALSE, "STOP", <<>>),
      Candidate(TRUE, "SAFETY", << <<"A">> >>),
      Candidate(TRUE, "MAX_TOKENS", <<>>) }

ApiResponses ==
    {ApiResponse(b, cs) : b \in BOOLEAN, cs \in SeqsUpTo(ApiCandidates, MaxCandidates)}
        \cup {ApiRaise}

VoteReplies ==
    {ListReply(vs) : vs \in SeqsUpTo(VoteTexts, MaxVotes)}
        \cup {NoneReply, RaiseReply, StrReply(<<"b","e","s","t"," ","a","n","s","w","e","r"," ","i","s"," ","2">>)}

-----------------------------------------------------------------------------
(* TOTSimulationAgentDILU.workflow, step by step. *)

NoDecision == [stars |-> Dec(0, 0), review |-> <<>>]

\* the steps of workflow in which a call is made that may raise
RaisingSteps ==
    {"plan", "get_user", "get_item", "get_reviews_item", "seed", "exemplar", "reason"}

\* plan = self.planning(task_description=self.task)
Plan ==
    /\ pc = "plan"
    /\ pc' = "get_user"
    /\ events' = Append(events, "plan")
    /\ UNCHANGED <<reviews_item, seeded, reviews_user, review_similar, result,
                   review_text, decision, outcome, caught, memVars, rsnVars, llmVars, fbVars, thrVars, agVars>>

\* the 'user' sub-task: self.interaction_tool.get_user(...)
GetUser ==
    /\ pc = "get_user"
    /\ pc' = "get_item"
    /\ events' = Append(events, "get_user")
    /\ UNCHANGED <<reviews_item, seeded, reviews_user, review_similar, result,
                   review_text, decision, outcome, caught, memVars, rsnVars, llmVars, fbVars, thrVars, agVars>>

\* the 'business' sub-task: self.interaction_tool.get_item(...); user and
\* business are non-empty strings afterwards, so neither is fetched again
GetItem ==
    /\ pc = "get_item"
    /\ pc' = "get_reviews_item"
    /\ events' = Append(events, "get_item")
    /\ UNCHANGED <<reviews_item, seeded, reviews_user, review_similar, result,
                   review_text, decision, outcome, caught, memVars, rsnVars, llmVars, fbVars, thrVars, agVars>>

\* reviews_item = self.interaction_tool.get_reviews(item_id=...)
GetReviewsItem ==
    /\ pc = "get_reviews_item"
    /\ \E rs \in SeqsUpTo(ItemReviewTexts, MaxRecords) : reviews_item' = rs
    /\ seeded' = 0
    /\ pc' = "seed"
    /\ events' = Append(events, "get_reviews_item")
    /\ UNCHANGED <<reviews_user, review_similar, result, review_text, decision,
                   outcome, caught, memVars, rsnVars, llmVars, fbVars, thrVars, agVars>>

\* one turn of the loop: self.memory(f'review: {review_text}')
SeedMemory ==
    /\ pc = "seed"
    /\ seeded < Len(reviews_item)
    /\ LET call == MemoryCall(memory_type, scenario_memory, emb,
                              SeedText(reviews_item[seeded + 1]), <<>>)
       IN  /\ scenario_memory' = call.store
           /\ memRet' = call.ret
           /\ added' = IF call.ret.op = "add" /\ ~call.ret.raised
                       THEN Append(added, call.ret.arg) ELSE added
           /\ events' = Append(events, call.ret.op)
    /\ seeded' = seeded + 1
    /\ UNCHANGED <<pc, reviews_item, reviews_user, review_similar, result,
                   review_text, decision, outcome, caught, memory_type, emb,
                   llm_answers, rsnVars, llmVars, fbVars, thrVars, agVars>>

\* reviews_user = self.interaction_tool.get_reviews(user_id=...)
GetReviewsUser ==
    /\ pc = "seed"
    /\ seeded = Len(reviews_item)
    /\ \E ru \in SeqsUpTo(UserReviewTexts, 1) : reviews_user' = ru
    /\ pc' = "exemplar"
    /\ events' = Append(events, "get_reviews_user")
    /\ UNCHANGED <<reviews_item, seeded, review_similar, result, review_text,
                   decision, outcome, caught, memVars, rsnVars, llmVars, fbVars, thrVars, agVars>>

\* review_similar = self.memory(reviews_user[0]["text"]) if reviews_user else ""
Exemplar ==
    /\ pc = "exemplar"
    /\ IF Len(reviews_user) > 0
       THEN LET call == MemoryCall(memory_type, scenario_memory, emb,
                                   reviews_user[1], <<>>)
            IN  /\ scenario_memory' = call.store
                /\ memRet' = call.ret
                /\ added' = IF call.ret.op = "add" /\ ~call.ret.raised
                            THEN Append(added, call.ret.arg) ELSE added
                /\ review_similar' = CallValue(call.ret)
                /\ events' = Append(events, call.ret.op)
       ELSE /\ review_similar' = Str(<<>>)
            /\ UNCHANGED <<scenario_memory, memRet, added, events>>
    /\ pc' = "reason"
    /\ UNCHANGED <<reviews_item, seeded, reviews_user, result, review_text,
                   decision, outcome, caught, memory_type, emb, llm_answers,
                   rsnVars, llmVars, fbVars, thrVars, agVars>>

\* result = self.reasoning(task_description), returning one of results
InvokeReasoning(results) ==
    /\ pc = "reason"
    /\ \E r \in results : result' = r
    /\ pc' = "parse"
    /\ events' = Append(events, "reasoning")
    /\ UNCHANGED <<reviews_item, seeded, reviews_user, review_similar,
                   review_text, decision, outcome, caught, memVars, rsnVars, llmVars, fbVars, thrVars, agVars>>

ReasoningReturns == InvokeReasoning(ReasoningResults)

WfReasoningReturns == InvokeReasoning(WfResults)

\* the call made in the current step raises: the except clause runs
StepRaises ==
    /\ pc \in RaisingSteps
    /\ pc' = "done"
    /\ caught' = TRUE
    /\ outcome' = OnException.outcome
    /\ decision' = OnException.decision
    /\ events' = Append(events, "raise")
    /\ UNCHANGED <<reviews_item, seeded, reviews_user, review_similar, result,
                   review_text, memVars, rsnVars, llmVars, fbVars, thrVars, agVars>>

\* lines 111-157: parse the result and return the dict
ParseAndReturn ==
    /\ pc = "parse"
    /\ review_text' = ReviewOf(ReviewLines(result))
    /\ decision' = [stars |-> StarsOf(StarsLines(result)),
                    review |-> Truncate(ReviewOf(ReviewLines(result)))]
    /\ outcome' = "returned"
    /\ pc' = "done"
    /\ events' = Append(events, "return")
    /\ UNCHANGED <<reviews_item, seeded, reviews_user, review_similar, result,
                   caught, memVars, rsnVars, llmVars, fbVars, thrVars, agVars>>

-----------------------------------------------------------------------------
(* The memory store driven by addMemory and retriveMemory calls. *)

\* memory.addMemory(t)
AddMemory ==
    /\ Len(scenario_memory) < MaxRecords
    /\ \E t \in MemTexts, replies \in [1..AddCalls(memory_type) -> LLMReplies] :
        LET call == AddOf(memory_type, scenario_memory, t, replies)
        IN  /\ scenario_memory' = call.store
            /\ memRet' = call.ret
            /\ added' = IF call.ret.raised THEN added ELSE Append(added, t)
            /\ llm_answers' = SubSeq(replies, 1, call.ret.calls)
    /\ UNCHANGED <<memory_type, emb, wfVars, rsnVars, llmVars, fbVars, thrVars, agVars>>

\* memory.retriveMemory(q)
RetriveMemory ==
    /\ \E q \in MemTexts,
          replies \in [1..RetrieveCalls(memory_type, scenario_memory) -> LLMReplies] :
        LET ret == RetrieveOf(memory_type, scenario_memory, emb, q, replies)
        IN  /\ memRet' = ret
            /\ llm_answers' = SubSeq(replies, 1, ret.calls)
    /\ UNCHANGED <<memory_type, scenario_memory, emb, added, wfVars, rsnVars, llmVars, fbVars, thrVars, agVars>>

-----------------------------------------------------------------------------
(* A reasoning strategy called once. *)

\* ReasoningCOTSC.__call__(task_description)
CallCOTSC ==
    /\ strategy = "cotsc" /\ rpc = "start"
    /\ \E reply \in SCReplies :
        /\ llm_reply' = reply
        /\ rsnRet' = COTSCResult(reply)
    /\ llm_calls' = <<LLMCall("cotsc", "0.1", SCSamples, TaskPrompt("solve"))>>
    /\ rpc' = "done"
    /\ UNCHANGED <<strategy, llm_reply2, reasoning_results, vote_results,
                   wfVars, memVars, llmVars, fbVars, thrVars, agVars>>

\* a strategy of one call with n=1, whose answer it returns
CallSingle(name, template) ==
    /\ strategy = name /\ rpc = "start"
    /\ \E reply \in SingleReplies :
        /\ llm_reply' = reply
        /\ rsnRet' = IF reply.kind = "raise" THEN RsnRaise
                      ELSE RsnReturn(reply.items[1])
    /\ llm_calls' = <<LLMCall(name, "0.1", 1, TaskPrompt(template))>>
    /\ rpc' = "done"
    /\ UNCHANGED <<strategy, llm_reply2, reasoning_results, vote_results,
                   wfVars, memVars, llmVars, fbVars, thrVars, agVars>>

\* ReasoningIO.__call__(task_description)
CallIO == CallSingle("io", "follow")

\* ReasoningCOT.__call__(task_description)
CallCOT == CallSingle("cot", "solve")

\* ReasoningDILU.__call__(task_description)
CallDILU == CallSingle("dilu", "dilu")

\* ReasoningTOT.__call__ up to the voting call: the candidate call, the
\* normalisation of its answer, and get_votes' short-circuit
TOTCandidates ==
    /\ strategy = "tot" /\ rpc = "start"
    /\ \E reply \in TOTReplies :
        /\ llm_reply' = reply
        /\ IF reply.kind = "raise"
           THEN /\ rsnRet' = RsnRaise
                /\ rpc' = "done"
                /\ UNCHANGED reasoning_results
           ELSE /\ reasoning_results' = Normalise(reply)
                /\ IF ShortCircuits(Normalise(reply))
                   THEN /\ rsnRet' = RsnReturn(Normalise(reply)[1])
                        /\ rpc' = "done"
                   ELSE /\ rpc' = "second"
                        /\ UNCHANGED rsnRet
    /\ llm_calls' = <<LLMCall("tot", "0.1", TOTSamples, TaskPrompt("solve"))>>
    /\ UNCHANGED <<strategy, llm_reply2, vote_results, wfVars, memVars, llmVars, fbVars, thrVars, agVars>>

\* get_votes from the voting call on, and the return of ReasoningTOT.__call__
TOTVote ==
    /\ strategy = "tot" /\ rpc = "second"
    /\ \E reply \in VoteReplies :
        /\ llm_reply2' = reply
        /\ rsnRet' = GetVotes(reasoning_results, reply)
        /\ vote_results' =
               IF reply.kind = "raise" THEN vote_results
               ELSE VoteResults(reasoning_results, VoteOutputs(reply))
    /\ llm_calls' = Append(llm_calls,
                           LLMCall("tot", "0.7", VoteSamples,
                                   VoteMessage(reasoning_results)))
    /\ rpc' = "done"
    /\ UNCHANGED <<strategy, llm_reply, reasoning_results, wfVars, memVars, llmVars, fbVars, thrVars, agVars>>

\* the first call of a strategy of two calls
FirstOfTwo(name, content) ==
    /\ strategy = name /\ rpc = "start"
    /\ \E reply \in SingleReplies :
        /\ llm_reply' = reply
        /\ IF reply.kind = "raise"
           THEN rsnRet' = RsnRaise /\ rpc' = "done"
           ELSE rsnRet' = rsnRet /\ rpc' = "second"
    /\ llm_calls' = <<LLMCall(name, "0.1", 1, content)>>
    /\ UNCHANGED <<strategy, llm_reply2, reasoning_results, vote_results,
                   wfVars, memVars, llmVars, fbVars, thrVars, agVars>>

\* the second call of a strategy of two calls, whose answer it returns
SecondOfTwo(name, temperature, content) ==
    /\ strategy = name /\ rpc = "second"
    /\ \E reply \in SingleReplies :
        /\ llm_reply2' = reply
        /\ rsnRet' = IF reply.kind = "raise" THEN RsnRaise
                      ELSE RsnReturn(reply.items[1])
    /\ llm_calls' = Append(llm_calls, LLMCall(name, temperature, 1, content))
    /\ rpc' = "done"
    /\ UNCHANGED <<strategy, llm_reply, reasoning_results, vote_results,
                   wfVars, memVars, llmVars, fbVars, thrVars, agVars>>

\* ReasoningSelfRefine.__call__: the call that produces reasoning_result
SelfRefineAnswer == FirstOfTwo("selfrefine", TaskPrompt("solve"))

\* ReasoningSelfRefine.refine(reasoning_result) and the return
SelfRefineRefine ==
    SecondOfTwo("selfrefine", "0.0", RefinePrompt(llm_reply.items[1]))

\* ReasoningStepBack.stepback(task_description)
StepBackPrinciple == FirstOfTwo("stepback", PrinciplePrompt)

\* ReasoningStepBack.__call__ after self.principle is set, and the return
StepBackAnswer ==
    SecondOfTwo("stepback", "0.1", StepBackPrompt(llm_reply.items[1]))

-----------------------------------------------------------------------------
(* GeminiLLM.__call__, step by step. *)

\* the try block: the provider is asked and response or error is set
GeminiTry ==
    /\ llm_pc = "idle"
    /\ Len(llm_history) < MaxCalls
    /\ \E k \in CallNs, api \in ApiResponses :
        /\ llm_n' = k
        /\ api_response' = api
        /\ llm_response' = Generate(api, k).response
        /\ llm_error' = Generate(api, k).error
    /\ llm_pc' = "finally"
    /\ UNCHANGED <<logger, enabled, call_counter, log_file, write_errors,
                   llm_history, wfVars, memVars, rsnVars, fbVars, thrVars, agVars>>

\* the finally clause: the call is logged
GeminiFinally ==
    /\ llm_pc = "finally"
    /\ \E write_ok \in BOOLEAN :
        LET after == LogLLMCall(logger, enabled, call_counter, log_file,
                                write_errors, llm_n, llm_response, llm_error,
                                write_ok)
        IN  /\ call_counter' = after.counter
            /\ log_file' = after.file
            /\ write_errors' = after.errors
    /\ llm_pc' = "exit"
    /\ UNCHANGED <<logger, enabled, llm_n, llm_response, llm_error,
                   llm_history, api_response, wfVars, memVars, rsnVars, fbVars, thrVars, agVars>>

\* the caller gets the response (line 201) or the exception (line 182)
GeminiExit ==
    /\ llm_pc = "exit"
    /\ llm_history' = Append(llm_history,
                             [raised |-> llm_error # NoError, n |-> llm_n,
                              response |-> llm_response, error |-> llm_error])
    /\ llm_pc' = "idle"
    /\ llm_response' = NoneReply
    /\ llm_error' = NoError
    /\ UNCHANGED <<logger, enabled, call_counter, log_file, write_errors,
                   llm_n, api_response, wfVars, memVars, rsnVars, fbVars, thrVars, agVars>>

-----------------------------------------------------------------------------
(* Initial states and specifications. *)

\* no GeminiLLM call is running and nothing was logged
NoLLMCall ==
    /\ call_counter = 0
    /\ write_errors = 0
    /\ llm_pc = "idle"
    /\ llm_n = 1
    /\ llm_response = NoneReply
    /\ llm_error = NoError
    /\ llm_history = <<>>
    /\ api_response = ApiRaise

\* the strategy is called without feedback (feedback: str = '') and was not
\* called before
NoFirstCall ==
    [made |-> FALSE, feedback |-> <<>>, llm_reply |-> NoneReply,
     llm_reply2 |-> NoneReply, llm_calls |-> <<>>, rsnRet |-> RsnReturn(<<>>)]

NoFeedback == feedback = <<>> /\ first_call = NoFirstCall

\* the threads of the worker pool
Threads == {1, 2}

\* no thread is inside a method of the logger or inside get_instance
NoThreads ==
    /\ write_lock = 0
    /\ log_pc = [t \in Threads |-> "idle"]
    /\ log_op = [t \in Threads |-> "none"]
    /\ local_id = [t \in Threads |-> 0]
    /\ counter_read = [t \in Threads |-> 0]
    /\ assigned = <<>>
    /\ log_chunks = <<>>
    /\ log_calls = 0
    /\ class_lock = 0
    /\ singleton = 0
    /\ get_pc = [t \in Threads |-> "idle"]
    /\ get_args = [t \in Threads |-> FALSE]
    /\ get_new = [t \in Threads |-> 0]
    /\ get_ret = [t \in Threads |-> 0]
    /\ constructed = <<>>

\* the agents whose workflows run in the worker pool
Agents == {1, 2}

\* no agent was constructed
NoAgents ==
    /\ disk = <<>>
    /\ db_path = [a \in Agents |-> 0]
    /\ uuids = 0
    /\ actor = [agent |-> 0, op |-> "none"]

\* an LLM without logger
IdleLLM ==
    /\ logger = "none"
    /\ enabled = FALSE
    /\ log_file = <<>>
    /\ NoLLMCall

\* no workflow call is running
IdleWorkflow ==
    /\ pc = "idle"
    /\ events = <<>>
    /\ reviews_item = <<>>
    /\ seeded = 0
    /\ reviews_user = <<>>
    /\ review_similar = Str(<<>>)
    /\ result = NoneVal
    /\ review_text = <<>>
    /\ decision = NoDecision
    /\ outcome = "running"
    /\ caught = FALSE

\* a MemoryDILU store nothing was added to, as __init__ leaves it
FreshMemory(embeddings) ==
    /\ memory_type = "dilu"
    /\ scenario_memory = <<>>
    /\ emb \in embeddings
    /\ memRet = NoMemCall
    /\ added = <<>>
    /\ llm_answers = <<>>

\* the strategy object before its call
NotCalled ==
    /\ rpc = "start"
    /\ llm_reply = NoneReply
    /\ llm_reply2 = NoneReply
    /\ llm_calls = <<>>
    /\ reasoning_results = <<>>
    /\ vote_results = <<>>
    /\ rsnRet = RsnReturn(<<>>)

\* the agent's ReasoningTOT, not called
IdleReasoning == strategy = "tot" /\ NotCalled

\* workflow is entered
InitWorkflow ==
    /\ pc = "plan"
    /\ events = <<>>
    /\ reviews_item = <<>>
    /\ seeded = 0
    /\ reviews_user = <<>>
    /\ review_similar = Str(<<>>)
    /\ result = NoneVal
    /\ review_text = <<>>
    /\ decision = NoDecision
    /\ outcome = "running"
    /\ caught = FALSE
    /\ FreshMemory([WfEmbedded -> EmbValues])
    /\ IdleReasoning
    /\ IdleLLM
    /\ NoFeedback
    /\ NoThreads
    /\ NoAgents

NextWorkflow ==
    \/ Plan
    \/ GetUser
    \/ GetItem
    \/ GetReviewsItem
    \/ SeedMemory
    \/ GetReviewsUser
    \/ Exemplar
    \/ WfReasoningReturns
    \/ StepRaises
    \/ ParseAndReturn

Spec == InitWorkflow /\ [][NextWorkflow]_vars

\* workflow has built the prompt of a task without reviews and is about to
\* call self.reasoning
InitParse ==
    /\ pc = "reason"
    /\ events = <<"plan", "get_user", "get_item", "get_reviews_item", "get_reviews_user">>
    /\ reviews_item = <<>>
    /\ seeded = 0
    /\ reviews_user = <<>>
    /\ review_similar = Str(<<>>)
    /\ result = NoneVal
    /\ review_text = <<>>
    /\ decision = NoDecision
    /\ outcome = "running"
    /\ caught = FALSE
    /\ FreshMemory({<<>>})
    /\ IdleReasoning
    /\ IdleLLM
    /\ NoFeedback
    /\ NoThreads
    /\ NoAgents

NextParse == ReasoningReturns \/ StepRaises \/ ParseAndReturn

SpecParse == InitParse /\ [][NextParse]_vars

\* a store of any of the four variants, as __init__ leaves it
InitMemory ==
    /\ memory_type \in MemoryTypes
    /\ scenario_memory = <<>>
    /\ emb \in Embeddings(memory_type)
    /\ memRet = NoMemCall
    /\ added = <<>>
    /\ llm_answers = <<>>
    /\ IdleWorkflow
    /\ IdleReasoning
    /\ IdleLLM
    /\ NoFeedback
    /\ NoThreads
    /\ NoAgents

NextMemory == AddMemory \/ RetriveMemory

SpecMemory == InitMemory /\ [][NextMemory]_vars

\* ReasoningCOTSC before its call
InitReasoning ==
    /\ strategy = "cotsc"
    /\ NotCalled
    /\ IdleWorkflow
    /\ FreshMemory({<<>>})
    /\ IdleLLM
    /\ NoFeedback
    /\ NoThreads
    /\ NoAgents

NextCOTSC == CallCOTSC

SpecCOTSC == InitReasoning /\ [][NextCOTSC]_vars

\* a GeminiLLM without logger, or with an LLMLogger that is enabled (its
\* __init__ wrote the header) or not
InitLLM ==
    /\ logger \in {"none", "attached"}
    /\ enabled \in (IF logger = "none" THEN {FALSE} ELSE BOOLEAN)
    /\ log_file = IF enabled THEN <<Header>> ELSE <<>>
    /\ NoLLMCall
    /\ NoFeedback
    /\ NoThreads
    /\ NoAgents
    /\ IdleWorkflow
    /\ FreshMemory({<<>>})
    /\ IdleReasoning

NextLLM == GeminiTry \/ GeminiFinally \/ GeminiExit

SpecLLM == InitLLM /\ [][NextLLM]_vars

Strategies == {"io", "cot", "cotsc", "tot", "dilu", "selfrefine", "stepback"}

\* any of the seven strategies before its call
InitStrategies ==
    /\ strategy \in Strategies
    /\ NotCalled
    /\ IdleWorkflow
    /\ FreshMemory({<<>>})
    /\ IdleLLM
    /\ NoFeedback
    /\ NoThreads
    /\ NoAgents

NextStrategies ==
    \/ CallIO
    \/ CallCOT
    \/ CallCOTSC
    \/ TOTCandidates
    \/ TOTVote
    \/ CallDILU
    \/ SelfRefineAnswer
    \/ SelfRefineRefine
    \/ StepBackPrinciple
    \/ StepBackAnswer

SpecStrategies == InitStrategies /\ [][NextStrategies]_vars

\* the feedback arguments a caller passes: the default '' and a text
Feedbacks == {<<>>, <<"f">>}

\* any of the seven strategies before a call with some feedback argument
InitFeedback ==
    /\ strategy \in Strategies
    /\ NotCalled
    /\ IdleWorkflow
    /\ FreshMemory({<<>>})
    /\ IdleLLM
    /\ feedback \in Feedbacks
    /\ first_call = NoFirstCall
    /\ NoThreads
    /\ NoAgents

\* the strategy is called a second time, with the same task description and
\* another feedback argument
CallAgain ==
    /\ rpc = "done"
    /\ ~first_call.made
    /\ first_call' = [made |-> TRUE, feedback |-> feedback,
                      llm_reply |-> llm_reply, llm_reply2 |-> llm_reply2,
                      llm_calls |-> llm_calls, rsnRet |-> rsnRet]
    /\ \E f \in Feedbacks \ {feedback} : feedback' = f
    /\ rpc' = "start"
    /\ llm_reply' = NoneReply
    /\ llm_reply2' = NoneReply
    /\ llm_calls' = <<>>
    /\ reasoning_results' = <<>>
    /\ vote_results' = <<>>
    /\ rsnRet' = RsnReturn(<<>>)
    /\ UNCHANGED <<strategy, wfVars, memVars, llmVars, thrVars, agVars>>

\* in the second call the LLM answers what it answered in the first
SameResponses ==
    IF first_call.made
    THEN /\ llm_reply' = first_call.llm_reply
         /\ llm_reply2' \in {NoneReply, first_call.llm_reply2}
    ELSE TRUE

\* the answers to the voting call that are tried with feedback: no list, or
\* a list of at most one vote output
FeedbackVoteReplies ==
    {r \in VoteReplies : r.kind = "list" => Len(r.items) <= 1}

NextFeedback ==
    \/ SameResponses /\ CallIO
    \/ SameResponses /\ CallCOT
    \/ SameResponses /\ CallCOTSC
    \/ SameResponses /\ TOTCandidates
    \/ SameResponses /\ llm_reply2' \in FeedbackVoteReplies /\ TOTVote
    \/ SameResponses /\ CallDILU
    \/ SameResponses /\ SelfRefineAnswer
    \/ SameResponses /\ SelfRefineRefine
    \/ SameResponses /\ StepBackPrinciple
    \/ SameResponses /\ StepBackAnswer
    \/ CallAgain

SpecFeedback == InitFeedback /\ [][NextFeedback]_vars

-----------------------------------------------------------------------------
(* Claims about the whole workflow, checked under Spec. *)

\* C1: workflow never raises: when any step of it raises an exception,
\* workflow returns exactly {stars: 0, review: ""}.
C1_WorkflowNeverRaises ==
    /\ outcome # "raised"
    /\ caught => pc = "done" /\ outcome = "returned" /\ decision = Sentinel
    /\ Len(events) > 0 /\ events[Len(events)] = "raise" => caught

\* get_user raised and workflow returned the sentinel
C1_Witness ==
    /\ events = <<"plan", "raise">> /\ pc = "done" /\ outcome = "returned"
    /\ decision = [stars |-> Dec(0, 0), review |-> <<>>]

-----------------------------------------------------------------------------
(* Claims about the parse step, checked under SpecParse. *)

Returned == pc = "done" /\ outcome = "returned" /\ ~caught

\* the substring of a line after its first colon
AfterFirstColon(line) ==
    LET P == {i \in 1..Len(line) : line[i] = ":"}
    IN  IF P = {} THEN <<>>
        ELSE SubSeq(line, (CHOOSE i \in P : \A j \in P : i <= j) + 1, Len(line))

\* the lines of a str result that hold the key, in order
KeyLines(r, key) ==
    IF r.kind = "str"
    THEN LET ls == Split(r.text, "\n")
             at == {i \in 1..Len(ls) : IsIn(key, Lower(ls[i]))}
         IN  [k \in 1..Cardinality(at) |-> ls[Nth(at, k)]]
    ELSE <<>>

\* the stars C2 states: the float read from the text after the first colon
\* of the first stars line, 3.0 without such a line or such a float
StarsAfterFirstColon(r) ==
    LET ls == KeyLines(r, StarsKey)
    IN  IF ls = <<>> THEN Dec(3, 0)
        ELSE LET f == ParseFloat(AfterFirstColon(ls[1]))
             IN  IF f.ok THEN f.val ELSE Dec(3, 0)

\* C2: for every raw reasoning output the parse step completes without
\* raising, stars is the float parsed from the text after the first colon of
\* the first line holding "stars:" (3.0 when there is no such line or the text
\* is no float), and review is "No review generated." when no line holds
\* "review:".
C2_ParseAfterFirstColon ==
    /\ pc = "done" /\ ~caught => outcome = "returned"
    /\ Returned =>
        /\ DecEq(decision.stars, StarsAfterFirstColon(result))
        /\ KeyLines(result, ReviewKey) = <<>> => decision.review = NoReviewGenerated

\* C3: for every review line the review of the Decision is the whole
\* substring after the first colon of that line, trimmed and cut to 512
\* characters, further colons included.
C3_ReviewAfterFirstColon ==
    Returned /\ KeyLines(result, ReviewKey) # <<>> =>
        decision.review =
            Prefix(Strip(AfterFirstColon(KeyLines(result, ReviewKey)[1])), ReviewLimit)

\* C4: every Decision workflow returns has a review of at most 512
\* characters; a parsed review body longer than 512 characters is replaced by
\* exactly its first 512 characters and a shorter one is returned unchanged.
C4_ReviewAtMost512 ==
    pc = "done" =>
        /\ Len(decision.review) <= 512
        /\ ~caught /\ Len(review_text) > 512 =>
               decision.review = SubSeq(review_text, 1, 512)
        /\ ~caught /\ Len(review_text) <= 512 => decision.review = review_text

\* a review body of 513 characters was cut to 512
C4_Witness ==
    Returned /\ Len(review_text) = 513 /\ Len(decision.review) = 512

\* C5: every Decision returned without a caught exception has stars in
\* {1.0, 2.0, 3.0, 4.0, 5.0}.
C5_StarsInDomain ==
    Returned => \E k \in 1..5 : DecEq(decision.stars, Dec(k, 0))

-----------------------------------------------------------------------------
(* Claims about the memory store, checked under SpecMemory. *)

Retrieved == memRet.op = "retrieve"

\* the stored task_trajectory texts
StoredTrajectories ==
    {scenario_memory[i].task_trajectory : i \in 1..Len(scenario_memory)}

\* C6: for each of the four memory variants, retriveMemory on a store of
\* zero records returns exactly the empty string for every query, makes no
\* LLM call and does not raise.
C6_EmptyStoreRetrieve ==
    Retrieved /\ Len(scenario_memory) = 0 =>
        ~memRet.raised /\ memRet.value = <<>> /\ memRet.calls = 0

\* MemoryTP retrieved from the empty store
C6_Witness ==
    /\ memory_type = "tp" /\ Retrieved /\ Len(scenario_memory) = 0
    /\ memRet.arg = <<"a">> /\ memRet.value = <<>>

\* C7 as stated: for MemoryDILU and MemoryTP, on every non-empty store, the
\* string retriveMemory returns is composed only of stored trajectory text.
C7_OnlyStoredText ==
    /\ Retrieved /\ ~memRet.raised /\ Len(scenario_memory) > 0
    /\ memory_type \in {"dilu", "tp"}
    => memRet.value = <<>> \/ memRet.value \in StoredTrajectories

\* C7 amended: for MemoryDILU, on every non-empty store, the string
\* retriveMemory returns is composed only of stored trajectory text; for
\* MemoryTP it is the banner followed by the LLM's plan, if one was asked for.
C7_DirectOnlyStoredText ==
    Retrieved /\ ~memRet.raised /\ Len(scenario_memory) > 0 =>
        /\ memory_type = "dilu" =>
               memRet.value = <<>> \/ memRet.value \in StoredTrajectories
        /\ memory_type = "tp" =>
               \/ memRet.value = PlanBanner /\ memRet.calls = 0
               \/ \E t \in LLMTexts :
                      memRet.value = PlanBanner \o t /\ memRet.calls = 1

\* MemoryDILU returned the stored "b" from a store of two records
C7_Witness ==
    /\ memory_type = "dilu" /\ Retrieved /\ Len(scenario_memory) = 2
    /\ memRet.value = <<"b">> /\ <<"b">> \in StoredTrajectories

\* C8: after any sequence of addMemory and retriveMemory calls the record
\* count is the number of addMemory calls that returned normally: each add
\* raises it by exactly 1, a repeated text included; a retrieval leaves it
\* unchanged; it never decreases.
C8_CountIsAdds ==
    /\ [](Len(scenario_memory) = Len(added))
    /\ [][/\ Len(scenario_memory') >= Len(scenario_memory)
          /\ memRet'.op = "add" /\ ~memRet'.raised =>
                 Len(scenario_memory') = Len(scenario_memory) + 1
          /\ memRet'.op = "add" /\ memRet'.raised =>
                 Len(scenario_memory') = Len(scenario_memory)
          /\ memRet'.op = "retrieve" =>
                 Len(scenario_memory') = Len(scenario_memory)]_vars

\* the same text was added twice and the store holds two records
C8_Witness ==
    /\ Len(added) = 2 /\ added[1] = added[2] /\ Len(scenario_memory) = 2
    /\ memRet.op = "add"

\* the documents whose page_content is nearest to q
Nearest(q) ==
    {i \in 1..Len(scenario_memory) :
        \A j \in 1..Len(scenario_memory) :
            Dist(emb, q, scenario_memory[i].page_content)
                <= Dist(emb, q, scenario_memory[j].page_content)}

\* C9: every record's task_trajectory is exactly the text passed to the
\* addMemory call that created it, and MemoryDILU.retriveMemory on a
\* non-empty store returns verbatim the task_trajectory of the nearest record
\* (the empty string when that is empty), never raising.
C9_TrajectoryVerbatim ==
    /\ Len(scenario_memory) = Len(added)
    /\ \A i \in 1..Len(scenario_memory) :
           i <= Len(added) => scenario_memory[i].task_trajectory = added[i]
    /\ memory_type = "dilu" /\ Retrieved /\ Len(scenario_memory) > 0 =>
           /\ ~memRet.raised
           /\ \E i \in Nearest(memRet.arg) :
                  memRet.value = scenario_memory[i].task_trajectory

\* MemoryDILU returned the second record, the only nearest one
C9_Witness ==
    /\ memory_type = "dilu" /\ Retrieved /\ Len(scenario_memory) = 2
    /\ Nearest(memRet.arg) = {2}
    /\ memRet.value = added[2] /\ added[2] # added[1]

-----------------------------------------------------------------------------
(* Claims about ReasoningCOTSC, checked under SpecCOTSC. *)

\* the index of the first occurrence of x in xs
FirstIndex(xs, x) == CHOOSE i \in 1..Len(xs) : xs[i] = x /\ \A j \in 1..(i - 1) : xs[j] # x

\* C10: ReasoningCOTSC makes exactly one LLM call, with n=5, and returns
\* the completion that occurs most often in the returned list; among the
\* completions of equal highest frequency the one whose first occurrence is
\* earliest; the fixed fallback when the list is empty or None.
C10_MostFrequentFirstSeen ==
    llm_calls # <<>> =>
        /\ Len(llm_calls) = 1 /\ llm_calls[1].n = 5
        /\ llm_reply.kind # "raise" => ~rsnRet.raised
        /\ llm_reply.kind # "raise" /\ Len(llm_reply.items) = 0 =>
               rsnRet.value = FallbackText
        /\ llm_reply.kind = "list" /\ Len(llm_reply.items) > 0 =>
               LET xs == llm_reply.items
                   n(x) == Cardinality({i \in 1..Len(xs) : xs[i] = x})
               IN  /\ \E i \in 1..Len(xs) : xs[i] = rsnRet.value
                   /\ \A i \in 1..Len(xs) :
                          \/ n(xs[i]) < n(rsnRet.value)
                          \/ /\ n(xs[i]) = n(rsnRet.value)
                             /\ FirstIndex(xs, rsnRet.value) <= i

\* two completions tie at two votes each and the first seen, "B", is returned
C10_Witness ==
    /\ llm_reply = ListReply(<<<<"B">>, <<"A">>, <<"A">>, <<"B">>, <<"C">>>>)
    /\ llm_calls # <<>> /\ rsnRet = RsnReturn(<<"B">>)

-----------------------------------------------------------------------------
(* Claims about ReasoningTOT, checked under SpecStrategies. *)

\* ReasoningTOT returned from get_votes after the voting call answered
Voted ==
    /\ strategy = "tot" /\ rpc = "done"
    /\ Len(llm_calls) = 2 /\ ~rsnRet.raised

\* C11: get_votes, when it does not short-circuit, returns the candidate
\* with the highest vote tally, the one of lowest index among those of equal
\* highest tally (candidate 0 when no vote is valid); what ReasoningTOT
\* returns is always one of the candidates.
C11_HighestTallyLowestIndex ==
    /\ Voted =>
          /\ Len(vote_results) = Len(reasoning_results)
          /\ \E i \in 1..Len(reasoning_results) :
                 /\ rsnRet.value = reasoning_results[i]
                 /\ \A j \in 1..Len(vote_results) :
                        vote_results[j] <= vote_results[i]
                 /\ \A j \in 1..(i - 1) : vote_results[j] < vote_results[i]
          /\ (\A j \in 1..Len(vote_results) : vote_results[j] = 0) =>
                 rsnRet.value = reasoning_results[1]
    /\ strategy = "tot" /\ rpc = "done" /\ ~rsnRet.raised =>
          \E i \in 1..Len(reasoning_results) :
              rsnRet.value = reasoning_results[i]

\* candidates A and B got one vote each and A was returned
C11_Witness ==
    /\ Voted
    /\ reasoning_results = << <<"A">>, <<"B">> >>
    /\ vote_results = <<1, 1>>
    /\ rsnRet = RsnReturn(<<"A">>)

\* the integer that directly follows the first 'best answer is ' of v that a
\* digit follows, or -1 when there is none
PhraseInteger(v) ==
    LET n == Len(BestAnswerIs)
        P == {p \in 1..(Len(v) - n) :
                 /\ SubSeq(v, p, p + n - 1) = BestAnswerIs
                 /\ IsDigit(v[p + n])}
    IN  IF P = {} THEN 0 - 1
        ELSE LET p == CHOOSE q \in P : \A r \in P : q <= r
                 e == CHOOSE i \in (p + n)..Len(v) :
                          /\ \A j \in (p + n)..i : IsDigit(v[j])
                          /\ i = Len(v) \/ ~IsDigit(v[i + 1])
             IN  DigitsVal(SubSeq(v, p + n, e))

\* C12: each vote completion that contains 'best answer is <integer>' adds
\* exactly one to the tally of the candidate whose 1-based index is the
\* integer that follows the phrase, whatever surrounds it; any other vote
\* changes no tally, so the tallies sum to at most the number of votes.
C12_TallyCountsPhraseInteger ==
    Voted =>
        LET votes == VoteOutputs(llm_reply2)
        IN  \A i \in 1..Len(reasoning_results) :
                vote_results[i] =
                    Cardinality({j \in 1..Len(votes) : PhraseInteger(votes[j]) = i})

\* whether t holds 'think' in any mix of upper and lower case
HoldsMarker(t) ==
    \E p \in 1..(Len(t) - 4) : Lower(SubSeq(t, p, p + 4)) = MarkerThink

\* C13: when the first candidate holds the marker 'think' (in any case)
\* ReasoningTOT returns that candidate after one LLM call, the candidate
\* call; otherwise it makes exactly one voting call, with n=5 at temperature
\* 0.7, after the candidate call: two calls in all.
C13_ShortCircuitOrOneVote ==
    /\ strategy = "tot" /\ rpc # "start" =>
          /\ llm_calls[1].n = 3
          /\ llm_reply.kind # "raise" =>
                 IF HoldsMarker(reasoning_results[1])
                 THEN /\ rpc = "done"
                      /\ Len(llm_calls) = 1
                      /\ rsnRet = RsnReturn(reasoning_results[1])
                 ELSE /\ rpc = "second" => Len(llm_calls) = 1
                      /\ rpc = "done" =>
                             /\ Len(llm_calls) = 2
                             /\ llm_calls[2].n = 5
                             /\ llm_calls[2].temperature = "0.7"

\* the first candidate held 'Think' and was returned without a vote
C13_Witness ==
    /\ strategy = "tot" /\ rpc = "done"
    /\ reasoning_results[1] = <<"I"," ","T","h","i","n","k"," ","A">>
    /\ Len(reasoning_results) = 3
    /\ Len(llm_calls) = 1
    /\ rsnRet = RsnReturn(<<"I"," ","T","h","i","n","k"," ","A">>)

\* C14: the content of the message sent in the voting call holds every
\* candidate, each as 'Answer i:' followed by its text.
C14_VoteMessageHoldsCandidates ==
    strategy = "tot" /\ Len(llm_calls) = 2 =>
        \A i \in 1..Len(reasoning_results) :
            \E k \in 1..Len(llm_calls[2].content) :
                llm_calls[2].content[k] = Piece("answer", i, reasoning_results[i])

-----------------------------------------------------------------------------
(* Claims about MemoryGenerative and MemoryVoyager, checked under          *)
(* SpecMemory.                                                             *)

\* MemoryGenerative.retriveMemory returned from a store that holds records
GenerativeRetrieved ==
    /\ memory_type = "generative" /\ Retrieved
    /\ ~memRet.raised /\ Len(scenario_memory) > 0

\* the trajectories of the retrieved records that were not skipped, in the
\* order they were retrieved: the candidates the LLM scored
Candidates == Trajectories(scenario_memory, TopK(scenario_memory, emb, memRet.arg, 3))

\* whether the relevance response t holds no digit
Digitless(t) == \A i \in 1..Len(t) : ~IsDigit(t[i])

\* the integer score of the k-th relevance response, 0 when it has no digit
ScoreOf(k) ==
    IF Digitless(llm_answers[k].text) THEN 0 ELSE FirstInt(llm_answers[k].text)

\* C15: on a non-empty store MemoryGenerative.retriveMemory returns the
\* trajectory of the retrieved candidate with the highest integer relevance
\* score, the earliest-retrieved one among equal scores, also when some of
\* the retrieved records were skipped for having no trajectory; a response
\* without digits counts as 0.
C15_HighestScoredCandidate ==
    GenerativeRetrieved /\ Len(Candidates) > 0 =>
        /\ Len(llm_answers) = Len(Candidates)
        /\ \E k \in 1..Len(Candidates) :
               /\ memRet.value = Candidates[k]
               /\ \A j \in 1..Len(Candidates) : ScoreOf(j) <= ScoreOf(k)
               /\ \A j \in 1..(k - 1) : ScoreOf(j) < ScoreOf(k)

\* C16 as stated: MemoryGenerative.retriveMemory returns the empty string
\* whenever every relevance response fails to parse to an integer.
C16_EmptyWhenNoScoreParses ==
    /\ GenerativeRetrieved
    /\ \A k \in 1..Len(llm_answers) : Digitless(llm_answers[k].text)
    => memRet.value = <<>>

\* C16 amended: MemoryGenerative.retriveMemory returns the empty string,
\* without a relevance call, when every retrieved record was skipped for
\* having no trajectory; a response that fails to parse counts as score 0,
\* so when every response fails to parse the trajectory of the nearest
\* retrieved record is returned.
C16_EmptyWhenAllSkipped ==
    memory_type = "generative" /\ Retrieved /\ Len(scenario_memory) > 0 =>
        /\ Len(Candidates) = 0 =>
               ~memRet.raised /\ memRet.value = <<>> /\ memRet.calls = 0
        /\ /\ ~memRet.raised /\ Len(Candidates) > 0
           /\ \A k \in 1..Len(llm_answers) : Digitless(llm_answers[k].text)
           => memRet.value =
                  scenario_memory[TopK(scenario_memory, emb, memRet.arg, 3)[1]].task_trajectory

\* both records of the store have no trajectory and '' was returned
C16_Witness ==
    /\ GenerativeRetrieved /\ Len(scenario_memory) = 2
    /\ \A i \in 1..2 : scenario_memory[i].task_trajectory = <<>>
    /\ memRet.arg = <<"a">> /\ memRet.value = <<>> /\ memRet.calls = 0

\* C17: MemoryVoyager.addMemory(t) makes exactly one LLM call and then stores
\* one record whose page_content is the returned summary and whose
\* task_trajectory is t; retriveMemory returns the trajectory (not the
\* summary) of the record nearest by summary; when the summary call raises,
\* addMemory raises and the record count is unchanged.
C17_VoyagerSummaryIndex ==
    /\ [](memory_type = "voyager" =>
            /\ memRet.op = "add" =>
                   /\ memRet.calls = 1 /\ Len(llm_answers) = 1
                   /\ memRet.raised <=> ~llm_answers[1].ok
            /\ memRet.op = "add" /\ ~memRet.raised =>
                   scenario_memory[Len(scenario_memory)]
                       = Document(llm_answers[1].text, memRet.arg)
            /\ Retrieved /\ Len(scenario_memory) > 0 =>
                   /\ ~memRet.raised /\ memRet.calls = 0
                   /\ \E i \in Nearest(memRet.arg) :
                          memRet.value = scenario_memory[i].task_trajectory)
    /\ [][memory_type = "voyager" /\ memRet'.op = "add" =>
              Len(scenario_memory') =
                  Len(scenario_memory) + (IF memRet'.raised THEN 0 ELSE 1)]_vars

\* the query equals the first record's trajectory, the second record's
\* summary is the nearest, and the second record's trajectory was returned
C17_Witness ==
    /\ memory_type = "voyager" /\ Retrieved /\ Len(scenario_memory) = 2
    /\ scenario_memory[1].task_trajectory = memRet.arg
    /\ Nearest(memRet.arg) = {2}
    /\ memRet.value = scenario_memory[2].task_trajectory
    /\ memRet.value # scenario_memory[2].page_content
    /\ memRet.value # memRet.arg

-----------------------------------------------------------------------------
(* Claims about all reasoning strategies, checked under SpecStrategies. *)

\* whether the prompt content holds the text t as a formatted-in piece
HoldsText(content, t) ==
    \E k \in 1..Len(content) :
        /\ content[k].kind \in {"reasoning_result", "principle"}
        /\ content[k].text = t

\* C18: ReasoningStepBack and ReasoningSelfRefine make exactly two LLM calls
\* per invocation, strictly in sequence: the second call is made only after
\* the first returned, its prompt holds the first call's output, the value
\* returned is the second call's output, and when the first call raises the
\* second call is never made.
C18_TwoSequentialCalls ==
    /\ [](strategy \in {"selfrefine", "stepback"} =>
            /\ Len(llm_calls) <= 2
            /\ rpc = "second" => Len(llm_calls) = 1 /\ llm_reply.kind = "str"
            /\ rpc = "done" /\ llm_reply.kind = "raise" =>
                   Len(llm_calls) = 1 /\ rsnRet.raised
            /\ rpc = "done" /\ llm_reply.kind # "raise" =>
                   /\ Len(llm_calls) = 2
                   /\ HoldsText(llm_calls[2].content, llm_reply.items[1])
                   /\ llm_reply2.kind = "str" =>
                          rsnRet = RsnReturn(llm_reply2.items[1]))
    /\ [][(strategy \in {"selfrefine", "stepback"}) =>
              /\ Len(llm_calls') = Len(llm_calls) + 1
              /\ Len(llm_calls') = 2 =>
                     /\ rpc = "second"
                     /\ llm_reply.kind = "str"
                     /\ llm_reply' = llm_reply]_vars

\* ReasoningSelfRefine got 'A', asked for its revision and returned 'B'
C18_Witness ==
    /\ strategy = "selfrefine" /\ rpc = "done"
    /\ llm_reply = StrReply(<<"A">>) /\ llm_reply2 = StrReply(<<"B">>)
    /\ Len(llm_calls) = 2
    /\ llm_calls[2].content = RefinePrompt(<<"A">>)
    /\ rsnRet = RsnReturn(<<"B">>)

\* C19: in every reasoning strategy, when any of its LLM calls raises, the
\* strategy raises to its caller, makes no further LLM call, does not retry
\* and substitutes no fallback value; a failure of the TOT voting call is
\* not replaced by a candidate.
C19_LLMErrorPropagates ==
    /\ [](/\ rpc # "start" /\ llm_reply.kind = "raise" =>
                 rpc = "done" /\ rsnRet = RsnRaise /\ Len(llm_calls) = 1
          /\ llm_reply2.kind = "raise" =>
                 rpc = "done" /\ rsnRet = RsnRaise /\ Len(llm_calls) = 2
          /\ rsnRet.raised =>
                 llm_reply.kind = "raise" \/ llm_reply2.kind = "raise")
    /\ [][rsnRet.raised => llm_calls' = llm_calls /\ rsnRet' = rsnRet]_vars

\* the voting call of ReasoningTOT raised and ReasoningTOT raised
C19_Witness ==
    /\ strategy = "tot" /\ rpc = "done"
    /\ reasoning_results = << <<"A">>, <<"B">> >>
    /\ llm_reply2 = RaiseReply
    /\ Len(llm_calls) = 2
    /\ rsnRet = RsnRaise

-----------------------------------------------------------------------------
(* Claims about GeminiLLM and its logger, checked under SpecLLM. *)

\* the llm_call entries of the log file, in the order written
LLMCallEntries == SelectSeq(log_file, LAMBDA e : e.log_type = "llm_call")

\* every call that reached its caller, or is about to, has its one entry:
\* with the response and error = null when it returned, with the error text
\* and response = null when it raised
OneEntryPerCall ==
    /\ Len(LLMCallEntries) =
           Len(llm_history) + (IF llm_pc = "exit" THEN 1 ELSE 0)
    /\ \A k \in 1..Len(llm_history) :
           /\ LLMCallEntries[k].response = llm_history[k].response
           /\ LLMCallEntries[k].error = llm_history[k].error
           /\ llm_history[k].raised =>
                  /\ LLMCallEntries[k].error # NoError
                  /\ LLMCallEntries[k].response = NoneReply
           /\ ~llm_history[k].raised => LLMCallEntries[k].error = NoError
    /\ llm_pc = "exit" =>
           /\ LLMCallEntries[Len(LLMCallEntries)].response = llm_response
           /\ LLMCallEntries[Len(LLMCallEntries)].error = llm_error

-----------------------------------------------------------------------------
(* One LLMLogger whose methods are called by the threads of the worker
   pool.  The log file is kept as the chunks that reach it: a record longer
   than the file object's buffer reaches the file in more than one write, so
   a line is a head chunk followed by a tail chunk that ends with '\n'. *)

\* how many logger methods are called
MaxLogCalls == 3

\* the methods that write entries
LogOps == {"llm_call", "module_diagnostic", "simulation_event"}

\* the entry of log_module_diagnostic and of log_simulation_event
DiagnosticEntry(kind) ==
    [log_type |-> kind, call_id |-> 0, n |-> 0, response |-> NoneReply,
     error |-> NoError]

\* a line that is no log entry
OtherLine == DiagnosticEntry("other")

Chunk(t, e, part) == [thread |-> t, entry |-> e, part |-> part]

\* the chunks of one line, written without another write in between
LineChunks(t, e) == <<Chunk(t, e, "head"), Chunk(t, e, "tail")>>

\* a lock that every thread gets at once
NoLock(owner) == TRUE

\* with self.write_lock / with cls._lock: the lock is acquired when free
CanAcquire(owner) == owner = 0

\* a counter that stays where it is
NextIdSame(c) == c

\* self.call_counter += 1, the value stored
NextId(c) == c + 1

\* the entry the thread t builds
EntryOf(t) ==
    IF log_op[t] = "llm_call"
    THEN LLMCallEntry(local_id[t], 1, NoneReply, NoError)
    ELSE DiagnosticEntry(log_op[t])

\* the variables the logger threads leave alone
LogFrame ==
    UNCHANGED <<logger, enabled, llm_pc, llm_n, llm_response, llm_error,
                llm_history, api_response, class_lock, singleton, get_pc,
                get_args, get_new, get_ret, constructed, wfVars, memVars,
                rsnVars, fbVars, agVars>>

\* a thread calls log_llm_call (without call_id), log_module_diagnostic or
\* log_simulation_event; each returns at once when the logger is not enabled
LogEnter(t) ==
    /\ log_pc[t] = "idle"
    /\ log_calls < MaxLogCalls
    /\ log_calls' = log_calls + 1
    /\ \E op \in LogOps :
        /\ log_op' = [log_op EXCEPT ![t] = op]
        /\ log_pc' = [log_pc EXCEPT ![t] =
                          IF ~enabled THEN "idle"
                          ELSE IF op = "llm_call" THEN "lock_counter"
                          ELSE "lock_write"]
    /\ local_id' = [local_id EXCEPT ![t] = 0]
    /\ UNCHANGED <<write_lock, counter_read, assigned, log_chunks,
                   call_counter, log_file, write_errors>>
    /\ LogFrame

\* log_llm_call, line 111: with self.write_lock
LockCounter(t) ==
    /\ log_pc[t] = "lock_counter"
    /\ CanAcquire(write_lock)
    /\ write_lock' = t
    /\ log_pc' = [log_pc EXCEPT ![t] = "load"]
    /\ UNCHANGED <<log_op, local_id, counter_read, assigned, log_chunks,
                   log_calls, call_counter, log_file, write_errors>>
    /\ LogFrame

\* line 112, self.call_counter += 1: the counter is read
LoadCounter(t) ==
    /\ log_pc[t] = "load"
    /\ counter_read' = [counter_read EXCEPT ![t] = call_counter]
    /\ log_pc' = [log_pc EXCEPT ![t] = "store"]
    /\ UNCHANGED <<write_lock, log_op, local_id, assigned, log_chunks,
                   log_calls, call_counter, log_file, write_errors>>
    /\ LogFrame

\* line 112, self.call_counter += 1: the sum is stored
StoreCounter(t) ==
    /\ log_pc[t] = "store"
    /\ call_counter' = NextId(counter_read[t])
    /\ log_pc' = [log_pc EXCEPT ![t] = "take"]
    /\ UNCHANGED <<write_lock, log_op, local_id, counter_read, assigned,
                   log_chunks, log_calls, log_file, write_errors>>
    /\ LogFrame

\* line 113: call_id = self.call_counter
TakeId(t) ==
    /\ log_pc[t] = "take"
    /\ local_id' = [local_id EXCEPT ![t] = call_counter]
    /\ assigned' = Append(assigned, [thread |-> t, id |-> call_counter])
    /\ log_pc' = [log_pc EXCEPT ![t] = "unlock_counter"]
    /\ UNCHANGED <<write_lock, log_op, counter_read, log_chunks, log_calls,
                   call_counter, log_file, write_errors>>
    /\ LogFrame

\* the with block of line 111 is left; the entry is built and
\* _write_log_entry is called
UnlockCounter(t) ==
    /\ log_pc[t] = "unlock_counter"
    /\ write_lock' = 0
    /\ log_pc' = [log_pc EXCEPT ![t] = "lock_write"]
    /\ UNCHANGED <<log_op, local_id, counter_read, assigned, log_chunks,
                   log_calls, call_counter, log_file, write_errors>>
    /\ LogFrame

\* _write_log_entry, line 65: with self.write_lock
LockWrite(t) ==
    /\ log_pc[t] = "lock_write"
    /\ CanAcquire(write_lock)
    /\ write_lock' = t
    /\ log_pc' = [log_pc EXCEPT ![t] = "write_head"]
    /\ UNCHANGED <<log_op, local_id, counter_read, assigned, log_chunks,
                   log_calls, call_counter, log_file, write_errors>>
    /\ LogFrame

\* lines 66-68: the file is opened in append mode and the record starts to
\* reach it, or open fails and the exception is swallowed (lines 69-71)
WriteHead(t) ==
    /\ log_pc[t] = "write_head"
    /\ \E write_ok \in BOOLEAN :
        IF write_ok
        THEN /\ log_chunks' = Append(log_chunks, Chunk(t, EntryOf(t), "head"))
             /\ log_pc' = [log_pc EXCEPT ![t] = "write_tail"]
             /\ UNCHANGED write_errors
        ELSE /\ write_errors' = write_errors + 1
             /\ log_pc' = [log_pc EXCEPT ![t] = "unlock_write"]
             /\ UNCHANGED log_chunks
    /\ UNCHANGED <<write_lock, log_op, local_id, counter_read, assigned,
                   log_calls, call_counter, log_file>>
    /\ LogFrame

\* line 68: the rest of the record and its '\n' reach the file
WriteTail(t) ==
    /\ log_pc[t] = "write_tail"
    /\ log_chunks' = Append(log_chunks, Chunk(t, EntryOf(t), "tail"))
    /\ log_pc' = [log_pc EXCEPT ![t] = "unlock_write"]
    /\ UNCHANGED <<write_lock, log_op, local_id, counter_read, assigned,
                   log_calls, call_counter, log_file, write_errors>>
    /\ LogFrame

\* the with block of line 65 is left and the method returns
UnlockWrite(t) ==
    /\ log_pc[t] = "unlock_write"
    /\ write_lock' = 0
    /\ log_pc' = [log_pc EXCEPT ![t] = "idle"]
    /\ log_op' = [log_op EXCEPT ![t] = "none"]
    /\ UNCHANGED <<local_id, counter_read, assigned, log_chunks, log_calls,
                   call_counter, log_file, write_errors>>
    /\ LogFrame

\* what the file at log_file_path holds before the logger is constructed:
\* nothing, the log of an earlier run, or something else
PriorFiles ==
    { <<>>,
      LineChunks(0, Header) \o LineChunks(0, LLMCallEntry(1, 1, NoneReply, NoError)),
      LineChunks(0, OtherLine) }

\* LLMLogger.__init__: the header is appended to the file when logging is
\* enabled; no method of the logger runs yet
InitLogger ==
    /\ logger = "attached"
    /\ enabled \in BOOLEAN
    /\ log_file = <<>>
    /\ NoLLMCall
    /\ write_lock = 0
    /\ log_pc = [t \in Threads |-> "idle"]
    /\ log_op = [t \in Threads |-> "none"]
    /\ local_id = [t \in Threads |-> 0]
    /\ counter_read = [t \in Threads |-> 0]
    /\ assigned = <<>>
    /\ \E prior \in PriorFiles :
        log_chunks = prior \o (IF enabled THEN LineChunks(0, Header) ELSE <<>>)
    /\ log_calls = 0
    /\ class_lock = 0
    /\ singleton = 0
    /\ get_pc = [t \in Threads |-> "idle"]
    /\ get_args = [t \in Threads |-> FALSE]
    /\ get_new = [t \in Threads |-> 0]
    /\ get_ret = [t \in Threads |-> 0]
    /\ constructed = <<>>
    /\ IdleWorkflow
    /\ FreshMemory({<<>>})
    /\ IdleReasoning
    /\ NoFeedback
    /\ NoAgents

NextLogger ==
    \E t \in Threads :
        \/ LogEnter(t)
        \/ LockCounter(t)
        \/ LoadCounter(t)
        \/ StoreCounter(t)
        \/ TakeId(t)
        \/ UnlockCounter(t)
        \/ LockWrite(t)
        \/ WriteHead(t)
        \/ WriteTail(t)
        \/ UnlockWrite(t)

SpecLogger == InitLogger /\ [][NextLogger]_vars

-----------------------------------------------------------------------------
(* LLMLogger.get_instance called by several threads. *)

\* a second check that always finds no instance
SecondCheckSkipped(i) == TRUE

\* line 46, inside the lock: if cls._instance is None
SecondCheck(i) == i = 0

\* the variables get_instance leaves alone
GetFrame ==
    UNCHANGED <<logger, enabled, call_counter, log_file, llm_pc, llm_n,
                llm_response, llm_error, llm_history, api_response,
                write_lock, log_pc, log_op, local_id, counter_read, assigned,
                wfVars, memVars, rsnVars, fbVars, agVars>>

\* a thread calls get_instance(log_file_path=log_file if enable_logging else
\* None, enabled=enable_logging); line 44: if cls._instance is None
GetEnter(t) ==
    /\ get_pc[t] \in {"idle", "done"}
    /\ log_calls < MaxLogCalls
    /\ log_calls' = log_calls + 1
    /\ \E enable_logging \in BOOLEAN :
        get_args' = [get_args EXCEPT ![t] = enable_logging]
    /\ get_pc' = [get_pc EXCEPT ![t] = IF singleton = 0 THEN "lock" ELSE "return"]
    /\ get_ret' = [get_ret EXCEPT ![t] = 0]
    /\ UNCHANGED <<class_lock, singleton, get_new, constructed, log_chunks,
                   write_errors>>
    /\ GetFrame

\* line 45: with cls._lock
GetLock(t) ==
    /\ get_pc[t] = "lock"
    /\ CanAcquire(class_lock)
    /\ class_lock' = t
    /\ get_pc' = [get_pc EXCEPT ![t] = "recheck"]
    /\ UNCHANGED <<singleton, get_args, get_new, get_ret, constructed,
                   log_chunks, log_calls, write_errors>>
    /\ GetFrame

\* line 46: if cls._instance is None
GetRecheck(t) ==
    /\ get_pc[t] = "recheck"
    /\ get_pc' = [get_pc EXCEPT ![t] =
                      IF SecondCheck(singleton) THEN "construct" ELSE "unlock"]
    /\ UNCHANGED <<class_lock, singleton, get_args, get_new, get_ret,
                   constructed, log_chunks, log_calls, write_errors>>
    /\ GetFrame

\* line 47, right side: cls(log_file_path, enabled); __init__ writes the
\* header when enabled, and a failed write is swallowed
GetConstruct(t) ==
    /\ get_pc[t] = "construct"
    /\ constructed' = Append(constructed, get_args[t])
    /\ get_new' = [get_new EXCEPT ![t] = Len(constructed) + 1]
    /\ \E write_ok \in BOOLEAN :
        IF get_args[t] /\ write_ok
        THEN /\ log_chunks' = log_chunks \o LineChunks(t, Header)
             /\ UNCHANGED write_errors
        ELSE /\ UNCHANGED log_chunks
             /\ write_errors' = IF get_args[t] THEN write_errors + 1
                                ELSE write_errors
    /\ get_pc' = [get_pc EXCEPT ![t] = "assign"]
    /\ UNCHANGED <<class_lock, singleton, get_args, get_ret, log_calls>>
    /\ GetFrame

\* line 47, left side: cls._instance = ...
GetAssign(t) ==
    /\ get_pc[t] = "assign"
    /\ singleton' = get_new[t]
    /\ get_pc' = [get_pc EXCEPT ![t] = "unlock"]
    /\ UNCHANGED <<class_lock, get_args, get_new, get_ret, constructed,
                   log_chunks, log_calls, write_errors>>
    /\ GetFrame

\* the with block of line 45 is left
GetUnlock(t) ==
    /\ get_pc[t] = "unlock"
    /\ class_lock' = 0
    /\ get_pc' = [get_pc EXCEPT ![t] = "return"]
    /\ UNCHANGED <<singleton, get_args, get_new, get_ret, constructed,
                   log_chunks, log_calls, write_errors>>
    /\ GetFrame

\* line 48: return cls._instance
GetReturn(t) ==
    /\ get_pc[t] = "return"
    /\ get_ret' = [get_ret EXCEPT ![t] = singleton]
    /\ get_pc' = [get_pc EXCEPT ![t] = "done"]
    /\ UNCHANGED <<class_lock, singleton, get_args, get_new, constructed,
                   log_chunks, log_calls, write_errors>>
    /\ GetFrame

\* the class LLMLogger before any get_instance: _instance is None
InitSingleton ==
    /\ IdleWorkflow
    /\ FreshMemory({<<>>})
    /\ IdleReasoning
    /\ IdleLLM
    /\ NoFeedback
    /\ NoThreads
    /\ NoAgents

NextSingleton ==
    \E t \in Threads :
        \/ GetEnter(t)
        \/ GetLock(t)
        \/ GetRecheck(t)
        \/ GetConstruct(t)
        \/ GetAssign(t)
        \/ GetUnlock(t)
        \/ GetReturn(t)

SpecSingleton == InitSingleton /\ [][NextSingleton]_vars

-----------------------------------------------------------------------------
(* Several agents, each with the MemoryDILU its __init__ constructs, whose
   workflows run in the threads of the worker pool.  A Chroma store is the
   content of its persist_directory. *)

\* a uuid4 that gives the same value every time
Uuid4Fixed(drawn) == 1

\* uuid.uuid4(): a value that was not given before
Uuid4(drawn) == drawn + 1

\* the first reviews of users that the agents pass to their memory
AgentQueries == {<<"a">>, <<"b">>}

\* the store of agent a: Chroma(persist_directory=db_path)
StoreOf(a) == disk[db_path[a]]

\* the variables the agents' memory calls leave alone
AgentFrame ==
    UNCHANGED <<memory_type, scenario_memory, emb, memRet, added, llm_answers,
                wfVars, rsnVars, llmVars, fbVars, thrVars>>

\* TOTSimulationAgentDILU.__init__: MemoryDILU(llm=...), whose
\* MemoryBase.__init__ draws db_path, removes the directory if it exists and
\* opens an empty Chroma store on it
ConstructAgent(a) ==
    /\ db_path[a] = 0
    /\ LET path == Uuid4(uuids)
       IN  /\ db_path' = [db_path EXCEPT ![a] = path]
           /\ disk' = IF path <= Len(disk) THEN [disk EXCEPT ![path] = <<>>]
                      ELSE Append(disk, <<>>)
    /\ uuids' = uuids + 1
    /\ actor' = [agent |-> a, op |-> "init"]
    /\ AgentFrame

\* workflow of agent a, line 72: self.memory(f'review: {review_text}')
AgentAdd(a) ==
    /\ db_path[a] # 0
    /\ Len(StoreOf(a)) < MaxRecords
    /\ \E t \in ItemReviewTexts :
        LET call == MemoryCall("dilu", StoreOf(a), emb, SeedText(t), <<>>)
        IN  /\ disk' = [disk EXCEPT ![db_path[a]] = call.store]
            /\ actor' = [agent |-> a, op |-> call.ret.op]
    /\ UNCHANGED <<db_path, uuids>>
    /\ AgentFrame

\* workflow of agent a, line 75: self.memory(reviews_user[0]["text"])
AgentRetrieve(a) ==
    /\ db_path[a] # 0
    /\ \E q \in AgentQueries :
        LET call == MemoryCall("dilu", StoreOf(a), emb, q, <<>>)
        IN  /\ disk' = [disk EXCEPT ![db_path[a]] = call.store]
            /\ actor' = [agent |-> a, op |-> call.ret.op]
    /\ UNCHANGED <<db_path, uuids>>
    /\ AgentFrame

\* no agent is constructed yet; the agents will share the embedding model
InitAgents ==
    /\ FreshMemory([WfEmbedded -> EmbValues])
    /\ IdleWorkflow
    /\ IdleReasoning
    /\ IdleLLM
    /\ NoFeedback
    /\ NoThreads
    /\ NoAgents

NextAgents ==
    \E a \in Agents :
        \/ ConstructAgent(a)
        \/ AgentAdd(a)
        \/ AgentRetrieve(a)

SpecAgents == InitAgents /\ [][NextAgents]_vars

-----------------------------------------------------------------------------
(* C21: the provider responses GeminiLLM.__call__ rejects. *)

\* the GeminiLLM call has left its try block
Answered == llm_pc \in {"finally", "exit"} /\ api_response.kind = "response"

\* a candidate without content, or whose content has no parts
Malformed(c) == ~c.content \/ Len(c.parts) = 0

\* the response is blocked, has no candidates, or one of the candidates the
\* call reads (candidates[:n]) lacks content or parts
BadResponse ==
    \/ api_response.blocked
    \/ Len(api_response.candidates) = 0
    \/ \E i \in 1..Len(api_response.candidates) :
        i <= llm_n /\ Malformed(api_response.candidates[i])

\* C21: for n = 1 and for n > 1, a GeminiLLM call whose provider response is
\* blocked, has no candidates, or has a candidate with missing content or
\* missing parts fails with an error; it never returns normally.
C21_BadResponseFails == Answered /\ BadResponse => llm_error # NoError

-----------------------------------------------------------------------------
(* C28: the failure sentinel and the parsed decisions, under SpecParse. *)

\* the returned dict compares equal to {"stars": 0, "review": ""}
IsSentinel(d) == DecEq(d.stars, Dec(0, 0)) /\ d.review = <<>>

\* C28: workflow returns {stars: 0, review: ""} only when an exception was
\* caught at its boundary: a run without exception never returns it,
\* whatever text the reasoning strategy produced.
C28_SentinelOnlyWhenCaught ==
    pc = "done" /\ outcome = "returned" /\ ~caught => ~IsSentinel(decision)

-----------------------------------------------------------------------------
(* C24 and C25: the steps of workflow, under Spec. *)

\* the step of lines 74-78 that sets review_similar without raising
ExemplarStep == pc = "exemplar" /\ pc' = "reason"

\* C24: the exemplar is the empty string when the user has no reviews, and
\* then no memory operation is performed for it; otherwise it is the result
\* of a memory retrieval with the user's first review text as query, and for
\* every such text the step is a retrieval that leaves the record count of
\* the store unchanged.
C24_ExemplarIsRetrieval ==
    [][ExemplarStep =>
        IF Len(reviews_user) = 0
        THEN /\ review_similar' = Str(<<>>)
             /\ UNCHANGED <<scenario_memory, memRet, events>>
        ELSE /\ memRet'.op = "retrieve"
             /\ memRet'.arg = reviews_user[1]
             /\ review_similar' = CallValue(memRet')
             /\ Len(scenario_memory') = Len(scenario_memory)]_vars


\* the stage a position of workflow belongs to: Plan, Fetch Context, Seed
\* Memory, Build Prompt, Invoke Reasoning, Parse, Return
StageOf(p) ==
    CASE p = "plan" -> 1
      [] p \in {"get_user", "get_item", "get_reviews_item"} -> 2
      [] p = "seed" -> 3
      [] p = "exemplar" -> 4
      [] p = "reason" -> 5
      [] p = "parse" -> 6
      [] p = "done" -> 7

\* how often the event e happened
Times(e) == Cardinality({i \in 1..Len(events) : events[i] = e})

\* the positions in events of the memory operations
MemoryEvents == {i \in 1..Len(events) : events[i] \in {"add", "retrieve"}}

\* every item review was fed to memory and made one record
AllSeeded ==
    /\ seeded = Len(reviews_item)
    /\ Len(scenario_memory) = Len(reviews_item)
    /\ added = [i \in 1..Len(reviews_item) |->
                    RemoveAll(SeedText(reviews_item[i]), ReviewKey)]
    /\ \A i \in MemoryEvents : events[i] = "add"

\* C25: in every run of workflow the stages follow each other in the order
\* Plan, Fetch Context, Seed Memory, Build Prompt, Invoke Reasoning, Parse,
\* Return and none is entered again: get_user and get_item are each called
\* once, every item review is added to memory (one record per review) before
\* the exemplar retrieval, and no reasoning call starts before the retrieval
\* has finished.
C25_StagesInOrder ==
    [][/\ StageOf(pc') >= StageOf(pc)
       /\ Times("get_user")' <= 1 /\ Times("get_item")' <= 1
       /\ Times("plan")' <= 1 /\ Times("reasoning")' <= 1
       /\ StageOf(pc') \in 3..6 => Times("get_user")' = 1 /\ Times("get_item")' = 1
       /\ pc' = "exemplar" => AllSeeded'
       /\ pc = "exemplar" => AllSeeded
       /\ \A i \in 1..Len(events') :
            events'[i] = "reasoning" => \A j \in MemoryEvents' : j < i]_vars

\* two item reviews were added, then the user's first review was the query
\* of a retrieval, then the reasoning ran and workflow returned
C25_Witness ==
    /\ pc = "done" /\ outcome = "returned" /\ ~caught
    /\ events = <<"plan", "get_user", "get_item", "get_reviews_item", "add",
                  "add", "get_reviews_user", "retrieve", "reasoning", "return">>
    /\ Len(scenario_memory) = 2

-----------------------------------------------------------------------------
(* C27: the feedback argument of the reasoning strategies, under
   SpecFeedback. *)

\* the strategy was called twice, with different feedback arguments, and
\* both calls ended
CalledTwice ==
    rpc = "done" /\ first_call.made /\ first_call.feedback # feedback

\* C27: for every reasoning strategy, two invocations with the same task
\* description and the same LLM responses but different feedback arguments
\* send identical messages to the LLM and return identical results.
C27_FeedbackIsNoOp ==
    CalledTwice /\ llm_reply = first_call.llm_reply
                /\ llm_reply2 = first_call.llm_reply2
        => llm_calls = first_call.llm_calls /\ rsnRet = first_call.rsnRet

\* ReasoningTOT ran twice through both of its calls, first without and then
\* with feedback
C27_Witness ==
    /\ CalledTwice /\ strategy = "tot"
    /\ first_call.feedback = <<>> /\ feedback = <<"f">>
    /\ Len(first_call.llm_calls) = 2 /\ Len(llm_calls) = 2
    /\ ~rsnRet.raised

-----------------------------------------------------------------------------
(* C22, C23 and C29: the log file under threads, under SpecLogger. *)

\* the chunks i and i+1 are the head and the tail of one record
OneRecord(i) ==
    /\ log_chunks[i].part = "head" /\ log_chunks[i + 1].part = "tail"
    /\ log_chunks[i].thread = log_chunks[i + 1].thread
    /\ log_chunks[i].entry = log_chunks[i + 1].entry

\* no chunk of another record lies between the head and the tail of a record
WholeRecords ==
    \A i \in 1..Len(log_chunks) :
        /\ log_chunks[i].part = "head" => i = Len(log_chunks) \/ OneRecord(i)
        /\ log_chunks[i].part = "tail" => i > 1 /\ OneRecord(i - 1)

\* C22: under any interleaving of threads calling log_llm_call,
\* log_module_diagnostic and log_simulation_event on one LLMLogger, each
\* appended record is written whole, and the call_ids the counter assigns
\* are pairwise distinct and strictly increasing in order of assignment.
C22_WholeRecordsDistinctIds ==
    /\ WholeRecords
    /\ \A i \in 1..Len(assigned) : assigned[i].id = i
    /\ (\A t \in Threads : log_pc[t] # "take") => call_counter = Len(assigned)

\* both threads were given a call_id and both records are in the file, the
\* second thread's first
C22_Witness ==
    /\ enabled /\ Len(assigned) = 2
    /\ assigned[1].thread = 1 /\ assigned[2].thread = 2
    /\ Len(log_chunks) >= 4
    /\ log_chunks[Len(log_chunks)].thread = 1
    /\ log_chunks[Len(log_chunks) - 2].thread = 2
    /\ log_pc[2] = "idle" /\ log_pc[1] = "unlock_write"


\* the lines of the log file that are complete, in file order
FileLines == SelectSeq(log_chunks, LAMBDA c : c.part = "tail")

\* C23: for every run with logging enabled, the first line of the log file
\* is the header record and every other line is a non-header entry, whatever
\* the file at that path contained before the logger was constructed.
C23_HeaderIsFirstLine ==
    enabled =>
        /\ Len(FileLines) >= 1
        /\ FileLines[1].entry = Header
        /\ \A i \in 2..Len(FileLines) : FileLines[i].entry.log_type # "header"

\* the llm_call lines the threads wrote, in file order
LLMCallLines ==
    SelectSeq(FileLines,
              LAMBDA c : c.thread \in Threads /\ c.entry.log_type = "llm_call")

\* C29: under any interleaving of threads calling log_llm_call without an
\* explicit call_id, the llm_call entries appear in the log file in strictly
\* increasing call_id order.
C29_FileInCallIdOrder ==
    \A i, j \in 1..Len(LLMCallLines) :
        i < j => LLMCallLines[i].entry.call_id < LLMCallLines[j].entry.call_id

\* C29 amended: the llm_call entries in the log file carry pairwise distinct
\* call_ids, and the entries written by one thread appear in strictly
\* increasing call_id order; entries of different threads appear in the
\* order in which their writes got the lock.
C29_DistinctAndOrderedPerThread ==
    \A i, j \in 1..Len(LLMCallLines) :
        i < j =>
            /\ LLMCallLines[i].entry.call_id # LLMCallLines[j].entry.call_id
            /\ LLMCallLines[i].thread = LLMCallLines[j].thread =>
                LLMCallLines[i].entry.call_id < LLMCallLines[j].entry.call_id

\* the entry with call_id 2 is in the file before the entry with call_id 1,
\* and a thread wrote two entries
C29_Witness ==
    /\ Len(LLMCallLines) = 3
    /\ LLMCallLines[1].entry.call_id = 2
    /\ LLMCallLines[2].entry.call_id = 1
    /\ LLMCallLines[3].entry.call_id = 3
    /\ LLMCallLines[1].thread = LLMCallLines[3].thread

-----------------------------------------------------------------------------
(* C30: get_instance under threads, under SpecSingleton. *)

\* the header lines of the log file
HeaderLines == SelectSeq(FileLines, LAMBDA c : c.entry = Header)

\* C30: under any interleaving of threads calling LLMLogger.get_instance, at
\* most one LLMLogger is ever constructed, every call returns that same
\* instance (later arguments are ignored), and the header record is written
\* at most once per process.
C30_OneInstance ==
    /\ Len(constructed) <= 1
    /\ singleton \in {0, 1}
    /\ \A t \in Threads : get_pc[t] = "done" => get_ret[t] = 1
    /\ Len(HeaderLines) <= 1
    /\ Len(HeaderLines) = 1 => constructed = <<TRUE>>

\* both threads found no instance at line 44; the first has constructed and
\* assigned it, the second, which passes another argument, waits for the lock
C30_Witness ==
    /\ get_pc[1] = "unlock" /\ get_pc[2] = "lock"
    /\ singleton = 1 /\ constructed = <<TRUE>>
    /\ get_args[1] /\ ~get_args[2]
    /\ Len(HeaderLines) = 1

-----------------------------------------------------------------------------
(* C26: the memory stores of concurrent workflows, under SpecAgents. *)

\* what agent b retrieves for the query q
RetrievedBy(b, q) == RetrieveOf("dilu", StoreOf(b), emb, q, <<>>).value

\* the step is an addMemory of agent a
AddBy(a) == actor'.agent = a /\ actor'.op = "add" /\ disk' # disk

\* C26: when several workflows run concurrently, each agent's memory store
\* is private: under every interleaving, an addMemory performed by one
\* workflow never changes the record count of, or the result retrieved from,
\* another workflow's store.
C26_StoresArePrivate ==
    [][\A a, b \in Agents :
        AddBy(a) /\ b # a /\ db_path[b] # 0 =>
            /\ Len(StoreOf(b))' = Len(StoreOf(b))
            /\ \A q \in AgentQueries : RetrievedBy(b, q)' = RetrievedBy(b, q)]_vars

\* agent 2 has just added its second record while agent 1 holds one record
C26_Witness ==
    /\ actor = [agent |-> 2, op |-> "add"]
    /\ db_path[1] # 0 /\ db_path[2] # 0
    /\ Len(StoreOf(1)) = 1 /\ Len(StoreOf(2)) = 2
    /\ StoreOf(1)[1] # StoreOf(2)[1]

====
